---- MODULE Spec2Model ----
\* PCMI controller client (xtconnect): the client state machine of
\* client.py over the in-memory transport of transport/mock.py, with the
\* frame reader, checksum and zone-record parser it calls.
\* Bytes are integers 0..255; byte strings and text are sequences of them.
EXTENDS Integers, Sequences, FiniteSets, TLC

\* ---------------------------------------------------------------------
\* Bounds of the model
\* ---------------------------------------------------------------------
MaxRetriesBound == 2
MaxQueue == 1
MaxRecords == 3
MaxLeftover == 1

\* ---------------------------------------------------------------------
\* protocol/constants.py
\* ---------------------------------------------------------------------
STX == 32
ETX == 13

PCMI_AT_ACK == 130
PCMI_SERIAL_NUMBER == 133
PCMI_SN_ACK == 134
PCMI_BREAK == 135
PCMI_BR_ACK == 136
PCMI_PD_STRING_1 == 144
PCMI_VD_STRING_1 == 146
PCMI_HA_STRING == 148
PCMI_SEND_ZONE_PARM == 149
PCMI_ZP_STRING_1 == 150
PCMI_ZV_STRING_1 == 152
PCMI_OK_SEND_NEXT == 153
PCMI_END_OF_RECORD == 155
PCMI_SEND_VERSION == 159
PCMI_SV_STRING == 160
PCMI_OK_CC_NEXT == 163
PCMI_SA_STRING == 165
PCMI_PW_CC_ACK == 169
PCMI_DA_STRING == 171
PCMI_SEND_INFO_RECORD == 173
PCMI_SEND_INFO1_RECORD == 178
PCMI_SA_NONSWAP_STRING == 179
PCMI_DA_NONSWAP_STRING == 180
PCMI_HA_NONSWAP_STRING == 181
PCMI_SEND_INFO1_NONSWAP_RECORD == 182
PCMI_PD_STRING_2 == 183
PCMI_ZP_STRING_2 == 184
PCMI_VD_STRING_2 == 185
PCMI_ZV_STRING_2 == 186
PCMI_ERROR == 193
PCMI_ER_PASSWORD == 194
PCMI_ER_SERIAL_NUM == 195
PCMI_ER_STRING == 196
PCMI_ER_NO_ZONE == 200
PCMI_ER_TRY_AGAIN == 202
PCMI_ER_HANDS_OFF == 203
PCMI_ER_CC_AGAIN == 204
PCMI_ER_CC_DEVICE == 205
PCMI_ER_CC_ZONE == 206
PCMI_ER_SUM_CHECK == 217
PCMI_ER_START_UP == 218
PCMI_ER_COM_LENGTH == 219

ACKNOWLEDGMENT_CODES ==
    { PCMI_SN_ACK, PCMI_BR_ACK, PCMI_AT_ACK, PCMI_OK_CC_NEXT, PCMI_PW_CC_ACK,
      PCMI_END_OF_RECORD, PCMI_ERROR, PCMI_ER_NO_ZONE, PCMI_ER_TRY_AGAIN,
      PCMI_ER_HANDS_OFF, PCMI_ER_SUM_CHECK, PCMI_ER_START_UP,
      PCMI_ER_COM_LENGTH }

ONE_BYTE_RLI_COMMANDS ==
    { PCMI_PD_STRING_1, PCMI_VD_STRING_1, PCMI_ZP_STRING_1, PCMI_ZV_STRING_1 }

TWO_BYTE_RLI_COMMANDS ==
    { PCMI_PD_STRING_2, PCMI_VD_STRING_2, PCMI_ZP_STRING_2, PCMI_ZV_STRING_2 }

VLI_COMMANDS ==
    { PCMI_HA_STRING, PCMI_HA_NONSWAP_STRING, PCMI_SA_STRING,
      PCMI_SA_NONSWAP_STRING, PCMI_DA_STRING, PCMI_DA_NONSWAP_STRING,
      PCMI_SEND_INFO_RECORD, PCMI_SEND_INFO1_RECORD,
      PCMI_SEND_INFO1_NONSWAP_RECORD }

ERROR_CODES ==
    { PCMI_ERROR, PCMI_ER_PASSWORD, PCMI_ER_SERIAL_NUM, PCMI_ER_STRING,
      PCMI_ER_NO_ZONE, PCMI_ER_TRY_AGAIN, PCMI_ER_HANDS_OFF, PCMI_ER_CC_AGAIN,
      PCMI_ER_CC_DEVICE, PCMI_ER_CC_ZONE, PCMI_ER_SUM_CHECK, PCMI_ER_START_UP,
      PCMI_ER_COM_LENGTH }

RECORD_FORMAT_THRESHOLD == 20

\* ---------------------------------------------------------------------
\* Byte-string helpers (Python slicing is 0-based and half-open)
\* ---------------------------------------------------------------------
At(buf, i) == buf[i + 1]

\* Python index normalisation: a negative index counts from the end
NormIdx(n, i) ==
    IF i < 0 THEN (IF i + n < 0 THEN 0 ELSE i + n)
    ELSE IF i > n THEN n ELSE i

\* buf[a:b]
Slice(buf, a, b) ==
    LET lo == NormIdx(Len(buf), a)
        hi == NormIdx(Len(buf), b)
    IN  IF hi <= lo THEN <<>> ELSE SubSeq(buf, lo + 1, hi)

\* buf[i] is defined (no IndexError)
InRange(buf, i) == i < Len(buf) /\ i >= 0 - Len(buf)

\* buf[i] with a negative index counting from the end
PyAt(buf, i) == IF i < 0 THEN buf[i + Len(buf) + 1] ELSE buf[i + 1]

\* index (0-based) of the first occurrence of byte b at or after start, -1 if none
RECURSIVE IndexOf(_, _, _)
IndexOf(buf, b, start) ==
    IF start >= Len(buf) THEN -1
    ELSE IF At(buf, start) = b THEN start
    ELSE IndexOf(buf, b, start + 1)

IsDigit(c) == c >= 48 /\ c <= 57
IsHexChar(c) == IsDigit(c) \/ (c >= 65 /\ c <= 70) \/ (c >= 97 /\ c <= 102)
HexVal(c) == IF IsDigit(c) THEN c - 48
             ELSE IF c >= 97 THEN c - 87
             ELSE c - 55
\* str.upper() on one ASCII character
Upper(c) == IF c >= 97 /\ c <= 122 THEN c - 32 ELSE c

\* whitespace that int() strips from both ends of its argument
IsPySpace(c) == c \in {9, 10, 11, 12, 13, 28, 29, 30, 31, 32}

RECURSIVE LStrip(_)
LStrip(s) == IF s # <<>> /\ IsPySpace(Head(s)) THEN LStrip(Tail(s)) ELSE s

RECURSIVE RStrip(_)
RStrip(s) == IF s # <<>> /\ IsPySpace(s[Len(s)])
             THEN RStrip(SubSeq(s, 1, Len(s) - 1)) ELSE s

\* digits of int(text, 16): hex digits, single underscores only between digits
RECURSIVE HexDigitsValue(_, _, _)
HexDigitsValue(s, acc, prevDigit) ==
    IF s = <<>> THEN (IF prevDigit THEN acc ELSE -1)
    ELSE IF IsHexChar(Head(s)) THEN HexDigitsValue(Tail(s), acc * 16 + HexVal(Head(s)), TRUE)
    ELSE IF Head(s) = 95 /\ prevDigit THEN HexDigitsValue(Tail(s), acc, FALSE)
    ELSE -1

ValueError == 0 - 1000000

\* int(): the digits after the sign, with an optional 0x prefix (an underscore
\* may follow the prefix); -1 when they do not parse
PyIntPrefixed(u) ==
    IF Len(u) >= 2 /\ u[1] = 48 /\ u[2] \in {88, 120}
    THEN HexDigitsValue(Slice(u, IF Len(u) >= 3 /\ u[3] = 95 THEN 3 ELSE 2, Len(u)),
                        0, FALSE)
    ELSE HexDigitsValue(u, 0, FALSE)

PyIntValue(sign, v) == IF v < 0 THEN ValueError ELSE sign * v

\* int(): an optional sign, then the digits
PyIntSigned(t) ==
    PyIntValue(IF t # <<>> /\ Head(t) = 45 THEN 0 - 1 ELSE 1,
               PyIntPrefixed(IF t # <<>> /\ Head(t) \in {43, 45} THEN Tail(t) ELSE t))

\* int(text, 16) of Python on ASCII text: optional surrounding whitespace,
\* optional sign, optional 0x prefix; ValueError when it does not parse
PyIntHex(text) ==
    IF \E i \in 1..Len(text) : text[i] > 127 THEN ValueError
    ELSE PyIntSigned(RStrip(LStrip(text)))

\* ---------------------------------------------------------------------
\* protocol/checksums.py
\* ---------------------------------------------------------------------
_HEX_CHARS == <<48, 49, 50, 51, 52, 53, 54, 55, 56, 57, 65, 66, 67, 68, 69, 70>>

\* the sum of the first n bytes
RECURSIVE SumBytes(_, _)
SumBytes(data, n) == IF n = 0 THEN 0 ELSE data[n] + SumBytes(data, n - 1)

\* adding byte by byte with & 0xFF after each addition is the sum modulo 256
calculate_checksum(data) == SumBytes(data, Len(data)) % 256

append_checksum(data) ==
    LET checksum == calculate_checksum(data)
    IN  data \o << _HEX_CHARS[(checksum \div 16) + 1], _HEX_CHARS[(checksum % 16) + 1] >>

\* validate_checksum(frame, checksum_offset): the two characters at the offset
\* are decoded with int(text, 16) and compared with the sum of what precedes
ChecksumMatches(expected, received) ==
    received # ValueError /\ expected = received

validate_checksum(frame, checksum_offset) ==
    IF Len(frame) < checksum_offset + 2 THEN FALSE
    ELSE ChecksumMatches(
             calculate_checksum(Slice(frame, 0, checksum_offset)),
             PyIntHex(Slice(frame, checksum_offset, checksum_offset + 2)))

\* ---------------------------------------------------------------------
\* protocol/length_indicators.py
\* ---------------------------------------------------------------------
VLI_2BYTE_THRESHOLD == 176

decode_1byte_rli(rli_chars) ==
    LET word_count == PyIntHex(rli_chars)
    IN  IF Len(rli_chars) # 2 \/ word_count = ValueError THEN ValueError
        ELSE word_count * 2

decode_2byte_rli(rli_chars) ==
    LET low_byte == PyIntHex(Slice(rli_chars, 0, 2))
        high_byte == PyIntHex(Slice(rli_chars, 2, 4))
        \* (high_byte << 8) | low_byte on Python's unbounded integers
        word_count == IF low_byte < 0 THEN low_byte ELSE high_byte * 256 + low_byte
    IN  IF Len(rli_chars) # 4 \/ low_byte = ValueError \/ high_byte = ValueError
        THEN ValueError
        ELSE word_count * 2

MAX_1BYTE_RLI_SIZE == 510
MAX_2BYTE_RLI_SIZE == 131070

\* the upper-case hex digits of a positive integer
RECURSIVE HexDigits(_)
HexDigits(v) ==
    IF v < 16 THEN << _HEX_CHARS[v + 1] >>
    ELSE Append(HexDigits(v \div 16), _HEX_CHARS[(v % 16) + 1])

\* f"{v:02X}": at least two characters, the sign of a negative value included
Format02X(v) ==
    IF v < 0 THEN << 45 >> \o HexDigits(0 - v)
    ELSE IF v < 16 THEN << 48 >> \o HexDigits(v)
    ELSE HexDigits(v)

\* encode_1byte_rli(byte_count): <<ValueError>> when it raises
encode_1byte_rli(byte_count) ==
    IF byte_count % 2 # 0 \/ byte_count > MAX_1BYTE_RLI_SIZE THEN << ValueError >>
    ELSE Format02X(byte_count \div 2)

\* a variant that writes the high byte first
Encode2ByteHighFirst(byte_count) ==
    IF byte_count % 2 # 0 \/ byte_count > MAX_2BYTE_RLI_SIZE THEN << ValueError >>
    ELSE Format02X(((byte_count \div 2) \div 256) % 256)
         \o Format02X((byte_count \div 2) % 256)

\* encode_2byte_rli(byte_count): low byte of the word count first
encode_2byte_rli(byte_count) ==
    IF byte_count % 2 # 0 \/ byte_count > MAX_2BYTE_RLI_SIZE THEN << ValueError >>
    ELSE Format02X((byte_count \div 2) % 256)
         \o Format02X(((byte_count \div 2) \div 256) % 256)

get_vli_size(command_byte) == IF command_byte >= VLI_2BYTE_THRESHOLD THEN 4 ELSE 2

\* ---------------------------------------------------------------------
\* protocol/frame_reader.py
\* ---------------------------------------------------------------------
IsAscii(s) == \A i \in 1..Len(s) : s[i] <= 127

\* whitespace that bytes.fromhex skips between byte pairs
IsHexSpace(c) == c \in {9, 10, 11, 12, 13, 32}

FromHexError == << 0 - 1 >>

\* bytes.fromhex(text): pairs of hex digits, whitespace allowed between pairs
RECURSIVE FromHexAcc(_, _)
FromHexAcc(s, acc) ==
    IF s = <<>> THEN acc
    ELSE IF IsHexSpace(Head(s)) THEN FromHexAcc(Tail(s), acc)
    ELSE IF Len(s) >= 2 /\ IsHexChar(s[1]) /\ IsHexChar(s[2])
         THEN FromHexAcc(Slice(s, 2, Len(s)), Append(acc, HexVal(s[1]) * 16 + HexVal(s[2])))
    ELSE FromHexError

fromhex(text) ==
    IF Len(text) % 2 = 0 /\ \A i \in 1..Len(text) : IsHexChar(text[i])
    THEN [ i \in 1..(Len(text) \div 2) |->
             HexVal(text[2 * i - 1]) * 16 + HexVal(text[2 * i]) ]
    ELSE FromHexAcc(text, <<>>)

\* bytes.hex().upper()
HexUpper(data) ==
    [ i \in 1..(2 * Len(data)) |->
        IF i % 2 = 1 THEN _HEX_CHARS[(data[(i + 1) \div 2] \div 16) + 1]
        ELSE _HEX_CHARS[(data[i \div 2] % 16) + 1] ]

\* result of FrameReader.parse: a ParsedFrame when result = "SUCCESS",
\* otherwise a FrameParseError (result, position); "IndexError" is the
\* exception an out-of-range subscript raises out of parse
ParsedFrame(command_byte, payload, payload_hex, length_indicator, consumed) ==
    [ result |-> "SUCCESS", command_byte |-> command_byte, payload |-> payload,
      payload_hex |-> payload_hex, length_indicator |-> length_indicator,
      bytes_consumed |-> consumed, position |-> 0 ]

FrameParseError(result, position) ==
    [ result |-> result, command_byte |-> 0 - 1, payload |-> <<>>,
      payload_hex |-> <<>>, length_indicator |-> 0 - 1,
      bytes_consumed |-> 0, position |-> position ]

_parse_acknowledgment(buffer, offset) ==
    ParsedFrame(At(buffer, offset), <<>>, <<>>, 0 - 1, offset + 1)

\* the part of an RLI or VLI frame after its length indicator is decoded:
\* data at offset + 1 + li_chars, then two checksum characters and the CR
ParseCounted(buffer, offset, li_chars, data_byte_count, vli) ==
    LET data_start == offset + 1 + li_chars
        cs_start == offset + 1 + li_chars + data_byte_count * 2
        cr_pos == offset + 1 + li_chars + data_byte_count * 2 + 2
        expected_size == offset + 1 + li_chars + data_byte_count * 2 + 2 + 1
        data_hex_bytes == Slice(buffer, data_start, cs_start)
        received_checksum == PyIntHex(Slice(buffer, cs_start, cr_pos))
        payload == fromhex(data_hex_bytes)
    IN  IF data_byte_count = ValueError
          THEN FrameParseError("INVALID_FORMAT", offset + 1)
        ELSE IF Len(buffer) < expected_size
          THEN FrameParseError("INCOMPLETE_FRAME", offset)
        ELSE IF vli /\ Len(buffer) <= cr_pos
          THEN FrameParseError("INVALID_FORMAT", Len(buffer))
        ELSE IF ~InRange(buffer, cr_pos)
          THEN FrameParseError("IndexError", cr_pos)
        ELSE IF PyAt(buffer, cr_pos) # ETX
          THEN FrameParseError("INVALID_FORMAT", cr_pos)
        ELSE IF received_checksum = ValueError
          THEN FrameParseError("INVALID_FORMAT", cs_start)
        ELSE IF calculate_checksum(Slice(buffer, offset, cs_start)) # received_checksum
          THEN FrameParseError("INVALID_CHECKSUM", cs_start)
        ELSE IF ~IsAscii(data_hex_bytes) \/ payload = FromHexError
          THEN FrameParseError("INVALID_FORMAT", data_start)
        ELSE ParsedFrame(At(buffer, offset), payload, data_hex_bytes,
                         data_byte_count, expected_size)

\* a variant without the test of the minimum size
ParseRliUnsized(buffer, offset, rli_chars) ==
    ParseCounted(buffer, offset, rli_chars,
                 IF rli_chars = 2
                 THEN decode_1byte_rli(Slice(buffer, offset + 1, offset + 1 + rli_chars))
                 ELSE decode_2byte_rli(Slice(buffer, offset + 1, offset + 1 + rli_chars)),
                 FALSE)

_parse_rli_frame(buffer, offset, rli_chars) ==
    IF Len(buffer) < offset + 1 + rli_chars + 2 + 1
      THEN FrameParseError("INCOMPLETE_FRAME", offset)
    ELSE ParseCounted(buffer, offset, rli_chars,
                      IF rli_chars = 2
                      THEN decode_1byte_rli(Slice(buffer, offset + 1, offset + 1 + rli_chars))
                      ELSE decode_2byte_rli(Slice(buffer, offset + 1, offset + 1 + rli_chars)),
                      FALSE)

_parse_vli_frame(buffer, offset) ==
    IF Len(buffer) < offset + 1 + get_vli_size(At(buffer, offset)) + 2 + 1
      THEN FrameParseError("INCOMPLETE_FRAME", offset)
    ELSE ParseCounted(buffer, offset, get_vli_size(At(buffer, offset)),
                      PyIntHex(Slice(buffer, offset + 1,
                                     offset + 1 + get_vli_size(At(buffer, offset)))),
                      TRUE)

\* a CR-delimited frame once the CR is located: CMD + DATA + CS(2) + CR, the
\* data decoded as hex when it is all hex digits and kept raw otherwise
ParseDelimited(buffer, offset, cr_pos) ==
    LET data_hex_bytes == Slice(buffer, offset + 1, cr_pos - 2)
        received_checksum == PyIntHex(Slice(buffer, cr_pos - 2, cr_pos))
        use_hex == /\ data_hex_bytes # <<>>
                   /\ \A i \in 1..Len(data_hex_bytes) : IsHexChar(data_hex_bytes[i])
                   /\ fromhex(data_hex_bytes) # FromHexError
    IN  IF cr_pos < 0
          THEN FrameParseError("INCOMPLETE_FRAME", Len(buffer))
        ELSE IF cr_pos - offset < 3
          THEN FrameParseError("INVALID_FORMAT", offset)
        ELSE IF received_checksum = ValueError
          THEN FrameParseError("INVALID_FORMAT", cr_pos - 2)
        ELSE IF calculate_checksum(Slice(buffer, offset, cr_pos - 2)) # received_checksum
          THEN FrameParseError("INVALID_CHECKSUM", cr_pos - 2)
        ELSE IF use_hex
          THEN ParsedFrame(At(buffer, offset), fromhex(data_hex_bytes),
                           data_hex_bytes, 0 - 1, cr_pos + 1)
        ELSE ParsedFrame(At(buffer, offset), data_hex_bytes,
                         HexUpper(data_hex_bytes), 0 - 1, cr_pos + 1)

_parse_cr_delimited(buffer, offset) ==
    ParseDelimited(buffer, offset, IndexOf(buffer, ETX, offset))

\* FrameReader.parse: the parser is picked by the command byte
ParseRouted(buffer, start_offset, command_byte) ==
    IF command_byte \in ACKNOWLEDGMENT_CODES
      THEN _parse_acknowledgment(buffer, start_offset)
    ELSE IF command_byte \in ONE_BYTE_RLI_COMMANDS
      THEN _parse_rli_frame(buffer, start_offset, 2)
    ELSE IF command_byte \in TWO_BYTE_RLI_COMMANDS
      THEN _parse_rli_frame(buffer, start_offset, 4)
    ELSE IF command_byte \in VLI_COMMANDS
      THEN _parse_vli_frame(buffer, start_offset)
    ELSE _parse_cr_delimited(buffer, start_offset)

parse(buffer) ==
    IF buffer = <<>>
      THEN FrameParseError("EMPTY_BUFFER", 0)
    ELSE IF At(buffer, 0) = STX /\ Len(buffer) <= 1
      THEN FrameParseError("INCOMPLETE_FRAME", 0)
    ELSE ParseRouted(buffer, IF At(buffer, 0) = STX THEN 1 ELSE 0,
                     At(buffer, IF At(buffer, 0) = STX THEN 1 ELSE 0))

\* ---------------------------------------------------------------------
\* protocol/endianness.py and parsers/hex_reader.py, as the zone parser
\* uses them: a cursor position over the hex text and endian-aware reads
\* ---------------------------------------------------------------------
SWAP_STRATEGY == "swap"
NON_SWAP_STRATEGY == "nonswap"

get_endian_strategy(record_format) ==
    IF record_format < RECORD_FORMAT_THRESHOLD THEN SWAP_STRATEGY ELSE NON_SWAP_STRATEGY

ReadError == 0 - 2000000

\* EndianStrategy.read_uint16(data, 0) on the bytes read_bytes(2) returned
endian_read_uint16(data, endian) ==
    IF Len(data) < 2 THEN ReadError
    ELSE IF endian = SWAP_STRATEGY THEN data[1] * 256 + data[2]
    ELSE data[2] * 256 + data[1]

endian_read_int16(data, endian) ==
    LET value == endian_read_uint16(data, endian)
    IN  IF value = ReadError THEN ReadError
        ELSE IF value < 32768 THEN value ELSE value - 65536

endian_read_uint32(data, endian) ==
    IF Len(data) < 4 THEN ReadError
    ELSE IF endian = SWAP_STRATEGY
         THEN (data[1] * 256 + data[2]) * 65536 + (data[3] * 256 + data[4])
    ELSE ((data[4] * 256 + data[3]) * 256 + data[2]) * 256 + data[1]

\* HexStringReader.read_byte at position pos (the text is upper-cased)
read_byte(data, pos) ==
    LET v == PyIntHex(Slice(data, pos, pos + 2))
    IN  IF pos + 2 > Len(data) \/ v = ValueError THEN ReadError ELSE v

\* HexStringReader.read_bytes(count) at position pos
read_bytes(data, pos, count) ==
    IF pos + count * 2 > Len(data) THEN FromHexError
    ELSE fromhex(Slice(data, pos, pos + count * 2))

read_uint16(data, pos, endian) ==
    LET b == read_bytes(data, pos, 2)
    IN  IF b = FromHexError THEN ReadError ELSE endian_read_uint16(b, endian)

read_int16(data, pos, endian) ==
    LET b == read_bytes(data, pos, 2)
    IN  IF b = FromHexError THEN ReadError ELSE endian_read_int16(b, endian)

read_uint32(data, pos, endian) ==
    LET b == read_bytes(data, pos, 4)
    IN  IF b = FromHexError THEN ReadError ELSE endian_read_uint32(b, endian)

\* one cursor operation of a record layout: its width in hex characters
FieldWidth(kind) ==
    CASE kind = "u8" -> 2
      [] kind = "skip1" -> 2
      [] kind = "u16" -> 4
      [] kind = "i16" -> 4
      [] kind = "u32" -> 8

ReadField(data, pos, kind, endian) ==
    CASE kind = "u8" -> read_byte(data, pos)
      [] kind = "skip1" -> IF pos + 2 > Len(data) THEN ReadError ELSE 0
      [] kind = "u16" -> read_uint16(data, pos, endian)
      [] kind = "i16" -> read_int16(data, pos, endian)
      [] kind = "u32" -> read_uint32(data, pos, endian)

\* the reads of a layout in order, each advancing the cursor; the values read,
\* or <<ReadError>> as soon as one read fails
RECURSIVE ReadFields(_, _, _, _, _)
ReadFields(data, pos, layout, endian, acc) ==
    IF layout = <<>> THEN acc
    ELSE LET v == ReadField(data, pos, Head(layout), endian)
         IN  IF v = ReadError THEN << ReadError >>
             ELSE ReadFields(data, pos + FieldWidth(Head(layout)), Tail(layout),
                             endian, Append(acc, v))

RECURSIVE SumWidths(_)
SumWidths(layout) ==
    IF layout = <<>> THEN 0 ELSE FieldWidth(Head(layout)) + SumWidths(Tail(layout))

UpperText(s) == [ i \in 1..Len(s) |-> Upper(s[i]) ]

\* ---------------------------------------------------------------------
\* parsers/zone_parser.py: ZoneParameterParser
\* ---------------------------------------------------------------------
MIN_RECORD_SIZE_BASIC == 42

\* ZoneParameterParser._parse_with_reader, the reads in order
ZoneParameterLayout ==
    << "u16", "u8", "u8", "skip1", "skip1",
       "i16", "i16", "i16", "i16", "i16", "i16", "i16",
       "u16", "u16",
       "u8", "skip1", "u16", "u16",
       "u16", "u16", "u16", "u16", "u16", "u16" >>

ZoneParameterLongLayout == << "u32", "u32", "u32" >>

ParseFailed == [ ok |-> FALSE ]

\* (format_byte >> 4) & 0x0F and format_byte & 0x0F on Python integers
HighNibble(b) == (b \div 16) % 16
LowNibble(b) == b % 16

\* the record is built from the values read and validated
ZoneParametersBuild(hex_data, format_byte, uses_long, v, w) ==
    IF v = << ReadError >> \/ w = << ReadError >> THEN ParseFailed
    \* field constraints of models.records.ZoneParameters
    ELSE IF ~(v[2] >= 1 /\ v[2] <= 9) THEN ParseFailed
    ELSE IF ~(v[3] >= 0 /\ v[3] <= 255) THEN ParseFailed
    ELSE IF ~(v[15] >= 0 /\ v[15] <= 100) THEN ParseFailed
    ELSE [ ok |-> TRUE,
           record_size_words |-> v[1], zone_number |-> v[2],
           record_type |-> v[3], record_format |-> HighNibble(format_byte),
           temp_setpoint |-> v[6], high_temp_alarm_offset |-> v[7],
           low_temp_alarm_offset |-> v[8], high_temp_inhibit_offset |-> v[9],
           low_temp_inhibit_offset |-> v[10], fixed_high_temp_alarm |-> v[11],
           fixed_low_temp_alarm |-> v[12],
           interlock_bits |-> v[13], zone_bits |-> v[14],
           temperature_control |-> LowNibble(format_byte),
           humidity_setpoint |-> v[15],
           humidity_off_time |-> v[17], humidity_purge_time |-> v[18],
           animal_age |-> v[19], projected_age |-> v[20], weight |-> v[21],
           begin_head_count |-> v[22], mortality_count |-> v[23],
           sold_count |-> v[24],
           begin_head_count_long |-> w[1], mortality_count_long |-> w[2],
           sold_count_long |-> w[3], uses_long_head_counts |-> uses_long,
           raw_data |-> hex_data ]

\* the reads of _parse_with_reader over the upper-cased text
ZoneParametersRead(hex_data, data, format_byte, endian_strategy, uses_long) ==
    ZoneParametersBuild(
        hex_data, format_byte, uses_long,
        ReadFields(data, 0, ZoneParameterLayout, endian_strategy, <<>>),
        IF uses_long
        THEN ReadFields(data, SumWidths(ZoneParameterLayout),
                        ZoneParameterLongLayout, endian_strategy, <<>>)
        ELSE << 0, 0, 0 >>)

\* the format byte is peeked at offset 8 to pick the endian strategy
ZoneParametersFormat(hex_data, format_byte) ==
    IF format_byte = ValueError THEN ParseFailed
    ELSE ZoneParametersRead(
             hex_data, UpperText(hex_data), format_byte,
             get_endian_strategy(HighNibble(format_byte)),
             HighNibble(format_byte) >= 3
             /\ (Len(hex_data) - SumWidths(ZoneParameterLayout)) \div 2 >= 12)

\* parse_zone_parameters(hex_data): the ZoneParameters record, or ParseFailed
\* when ParseError is raised (short record, invalid hex, failed validation)
parse_zone_parameters(hex_data) ==
    IF Len(hex_data) < MIN_RECORD_SIZE_BASIC * 2 THEN ParseFailed
    ELSE ZoneParametersFormat(hex_data, PyIntHex(Slice(hex_data, 8, 10)))

\* ---------------------------------------------------------------------
\* State
\* ---------------------------------------------------------------------
VARIABLES
    state,          \* ControllerClient._state
    serial_number,  \* ControllerClient._serial_number (NoSerial is None)
    max_retries,    \* ControllerClient._max_retries
    is_open,        \* MockTransport._is_open
    responses,      \* MockTransport._responses
    read_buffer,    \* MockTransport._read_buffer
    written_data,   \* MockTransport._written_data; the owner of the transport
                    \* clears it before each client call, so it holds the
                    \* frames the latest call wrote
    pc,             \* where the calling coroutine is: "idle", or "connect_sleep"
                    \* while connect() sleeps between two attempts
    attempt,        \* connect(): the loop variable
    connect_serial, \* connect(): the serial_number argument
    gen,            \* the download stream the caller holds: status and kind
    observed,       \* records the stream has yielded to the caller
    delivered,      \* chunks the transport took from its queue for the stream
    version,        \* the record download_version last returned
    result,         \* outcome of the caller's most recent client call or step
    trace,          \* the calls the client made on the transport, in order,
                    \* during the latest operation that reached the transport
                    \* (a connect() with its retries, a disconnect(), a
                    \* download_version(), or a stream since it was created)
    reader,         \* a HexStringReader: _data, _length, _position
    registry,       \* a DeviceStrategyRegistry: its two strategy maps
    arg,            \* the argument of a codec function under test
    ret             \* outcome of the latest call on a cursor, a registry or a
                    \* codec function

\* the client and its transport
client_vars == << state, serial_number, max_retries, is_open, responses,
                  read_buffer, written_data, pc, attempt, connect_serial, gen,
                  observed, delivered, version, result, trace >>

\* the parts of the library a caller may use on their own
unit_vars == << reader, registry, arg, ret >>

vars == << state, serial_number, max_retries, is_open, responses, read_buffer,
           written_data, pc, attempt, connect_serial, gen,
           observed, delivered, version, result, trace,
           reader, registry, arg, ret >>

\* no cursor, an empty registry, no argument and no outcome
NoReader == [ data |-> <<>>, length |-> 0, position |-> 0 ]
NoRegistry == [ parameter_strategies |-> <<>>, variable_strategies |-> <<>> ]
NoRet == [ op |-> "none" ]

UnitsAtRest ==
    /\ reader = NoReader
    /\ registry = NoRegistry
    /\ arg = <<>>
    /\ ret = NoRet

NoSerial == <<>>

\* "00009001", "00009002", the too short "123", "ABCD1234", and eight
\* ARABIC-INDIC DIGIT ONE characters (U+0661)
Serial1 == << 48, 48, 48, 48, 57, 48, 48, 49 >>
Serial2 == << 48, 48, 48, 48, 57, 48, 48, 50 >>
SerialShort == << 49, 50, 51 >>
SerialAlpha == << 65, 66, 67, 68, 49, 50, 51, 52 >>
SerialArabic == [ i \in 1..8 |-> 1633 ]
SerialArgs == { Serial1, Serial2, SerialShort, SerialAlpha, SerialArabic }

\* a character \d and str.isdigit accept: an ASCII digit, or a decimal digit
\* of another script (of these, the ARABIC-INDIC block U+0660..U+0669)
IsDecimalDigit(c) == IsDigit(c) \/ (c >= 1632 /\ c <= 1641)

\* a variant that checks the characters but not the length
SerialNumberAnyLength(value) ==
    \A i \in 1..Len(value) : IsDecimalDigit(value[i])

\* models.records.SerialNumber: exactly 8 characters, all of them digits
SerialNumberValid(value) ==
    Len(value) = 8 /\ \A i \in 1..Len(value) : IsDecimalDigit(value[i])

\* ---------------------------------------------------------------------
\* client.py: frames the client writes
\* ---------------------------------------------------------------------
_build_frame(command, data) ==
    << STX >> \o append_checksum(<< command >> \o data) \o << ETX >>

_build_simple_frame(command) == _build_frame(command, <<>>)

\* f"{len(serial_number):02X}" for the lengths a call can pass
LenHex02(value) ==
    << _HEX_CHARS[(Len(value) \div 16) + 1], _HEX_CHARS[(Len(value) % 16) + 1] >>

\* a variant that leaves the length characters out of the connect frame
ConnectFrameNoLength(value) == _build_frame(PCMI_SERIAL_NUMBER, value)

\* the connect frame: PCMI_SERIAL_NUMBER, the length, the serial number
ConnectFrame(value) == _build_frame(PCMI_SERIAL_NUMBER, LenHex02(value) \o value)

\* ---------------------------------------------------------------------
\* transport/mock.py: operations on the transport state
\*   t = [is_open, responses, read_buffer, written_data, trace]
\* each returns the new transport state, the exception raised ("none" if
\* none), the value returned and the chunks taken from the response queue
\* ---------------------------------------------------------------------
Transport == [ is_open |-> is_open, responses |-> responses,
               read_buffer |-> read_buffer, written_data |-> written_data,
               trace |-> trace ]

\* the transport as an operation finds it when it starts
TransportAtStart == [ Transport EXCEPT !.trace = <<>> ]

\* one call on the transport: "write" with the bytes passed, or "read" with
\* the bytes returned, and the exception it raised; a download loop also
\* notes each call of FrameReader.parse: "parse" with the command byte of the
\* frame, and the result when it is not SUCCESS
Event(op, data, exc) == [ op |-> op, data |-> data, exc |-> exc ]

\* the call that produced r is appended to the trace
Logged(r, op, data) ==
    [ r EXCEPT !.t.trace = Append(@, Event(op, data, r.exc)) ]

TResult(t, exc, value, popped) ==
    [ t |-> t, exc |-> exc, value |-> value, popped |-> popped ]

MockWrite(t, data) ==
    IF ~t.is_open THEN TResult(t, "TransportError", <<>>, <<>>)
    ELSE TResult([t EXCEPT !.written_data = Append(@, data)], "none", <<>>, <<>>)

LoggedRead(r) == Logged(r, "read", r.value)

transport_write(t, data) == Logged(MockWrite(t, data), "write", data)

\* read_until with the terminator at index idx of the buffer (-1: not there):
\* the bytes up to and including it leave the buffer
TakeUntil(t, idx, popped) ==
    IF idx >= 0
    THEN TResult([t EXCEPT !.read_buffer = Slice(@, idx + 1, Len(@))],
                 "none", Slice(t.read_buffer, 0, idx + 1), popped)
    ELSE TResult(t, "TimeoutError", <<>>, popped)

\* read_until once the buffer is known not to hold the terminator: the next
\* queued response is loaded and the buffer searched again
ReadUntilLoad(t, terminator) ==
    IF t.responses # <<>>
    THEN TakeUntil([t EXCEPT !.responses = Tail(@),
                             !.read_buffer = @ \o Head(t.responses)],
                   IndexOf(t.read_buffer \o Head(t.responses), terminator, 0),
                   << Head(t.responses) >>)
    ELSE TResult(t, "TimeoutError", <<>>, <<>>)

MockReadUntil(t, terminator) ==
    IF ~t.is_open THEN TResult(t, "TransportError", <<>>, <<>>)
    ELSE IF IndexOf(t.read_buffer, terminator, 0) >= 0
      THEN TakeUntil(t, IndexOf(t.read_buffer, terminator, 0), <<>>)
    ELSE ReadUntilLoad(t, terminator)

transport_read_until(t, terminator) == LoggedRead(MockReadUntil(t, terminator))

MockReadByte(t) ==
    IF ~t.is_open THEN TResult(t, "TransportError", <<>>, <<>>)
    ELSE IF t.read_buffer # <<>>
      THEN TResult([t EXCEPT !.read_buffer = Tail(@)], "none",
                   << Head(t.read_buffer) >>, <<>>)
    ELSE IF t.responses # <<>>
      THEN IF Head(t.responses) # <<>>
           THEN TResult([t EXCEPT !.responses = Tail(@),
                                  !.read_buffer = Tail(Head(t.responses))],
                        "none", << Head(Head(t.responses)) >>,
                        << Head(t.responses) >>)
           ELSE TResult([t EXCEPT !.responses = Tail(@)], "TimeoutError", <<>>,
                        << Head(t.responses) >>)
    ELSE TResult(t, "TimeoutError", <<>>, <<>>)

transport_read_byte(t) == LoggedRead(MockReadByte(t))

\* a variant that leaves the read buffer as it is
DiscardNothing(t) ==
    [t EXCEPT !.trace = Append(@, Event("discard", <<>>, "none"))]

\* MockTransport.discard_buffers: the read buffer is emptied; the call is
\* noted in the trace
discard_buffers(t) ==
    [t EXCEPT !.read_buffer = <<>>,
              !.trace = Append(@, Event("discard", <<>>, "none"))]

\* ---------------------------------------------------------------------
\* client.py: ControllerClient._read_response
\* returns the transport state, the exception raised, value = <<command
\* byte>>, and first = the byte read_byte returned (-1 when it raised)
\* ---------------------------------------------------------------------
RResult(r, exc, value, first) ==
    [ t |-> r.t, exc |-> exc, value |-> value, first |-> first ]

\* the framed response is parsed
ReadResponseParsed(rest, parsed, response_byte) ==
    IF parsed.result = "IndexError"
      THEN RResult(rest, "IndexError", <<>>, response_byte)
    ELSE IF parsed.result # "SUCCESS"
      THEN RResult(rest, "ProtocolError", <<>>, response_byte)
    ELSE RResult(rest, "none", << parsed.command_byte >>, response_byte)

\* not an acknowledgment: the rest of the frame is read up to ETX
ReadResponseFramed(rest, response_byte) ==
    IF rest.exc # "none" THEN RResult(rest, rest.exc, <<>>, response_byte)
    ELSE ReadResponseParsed(rest, parse(<< response_byte >> \o rest.value),
                            response_byte)

\* the first byte is read
ReadResponseByte(b) ==
    IF b.exc # "none" THEN RResult(b, b.exc, <<>>, 0 - 1)
    ELSE IF b.value[1] \in ACKNOWLEDGMENT_CODES
      THEN RResult(b, "none", b.value, b.value[1])
    ELSE ReadResponseFramed(transport_read_until(b.t, ETX), b.value[1])

_read_response(t) == ReadResponseByte(transport_read_byte(t))

\* ---------------------------------------------------------------------
\* client.py: ControllerClient.connect
\* ---------------------------------------------------------------------
\* what the caller's latest call or step did: how it ended ("ok", "pending"
\* while connect sleeps, "record" for a yielded record, "end" for a stream that
\* ended cleanly, or the exception raised), the controller error code, the
\* first byte _read_response read, and the frames on the transport's log when
\* the call returned
Result(op, kind, code, first, written) ==
    [ op |-> op, kind |-> kind, code |-> code, first |-> first,
      written |-> written ]

SetTransport(t) ==
    /\ is_open' = t.is_open
    /\ responses' = t.responses
    /\ read_buffer' = t.read_buffer
    /\ written_data' = t.written_data
    /\ trace' = t.trace

Outcome(t, kind, code, first) ==
    [ t |-> t, kind |-> kind, code |-> code, first |-> first ]

\* a variant that takes every response but an error code for SN_ACK
ConnectClassifyLenient(r) ==
    IF r.exc # "none" THEN Outcome(r.t, r.exc, 0 - 1, r.first)
    ELSE IF r.value[1] \in ERROR_CODES
      THEN Outcome(r.t, "ControllerError", r.value[1], r.first)
    ELSE Outcome(r.t, "ok", 0 - 1, r.first)

\* the response to the connect frame is classified
ConnectClassify(r) ==
    IF r.exc # "none" THEN Outcome(r.t, r.exc, 0 - 1, r.first)
    ELSE IF r.value[1] = PCMI_SN_ACK THEN Outcome(r.t, "ok", 0 - 1, r.first)
    ELSE IF r.value[1] \in ERROR_CODES
      THEN Outcome(r.t, "ControllerError", r.value[1], r.first)
    ELSE Outcome(r.t, "ProtocolError", 0 - 1, r.first)

\* the connect frame is written; the response is read if the write succeeded
ConnectWritten(w) ==
    IF w.exc # "none" THEN Outcome(w.t, w.exc, 0 - 1, 0 - 1)
    ELSE ConnectClassify(_read_response(w.t))

\* a variant whose retries read again without writing the frame again
ConnectAttemptWriteOnce(t, serial, att) ==
    IF att > 0 THEN ConnectClassify(_read_response(discard_buffers(t)))
    ELSE ConnectWritten(transport_write(t, ConnectFrame(serial)))

\* one iteration of the retry loop: discard (after the first attempt), write
\* the connect frame, read the response and classify it
ConnectAttempt(t, serial, att) ==
    IF ~IsAscii(serial)
      THEN \* serial_number.encode("ascii") raises while the frame is built
           Outcome(IF att > 0 THEN discard_buffers(t) ELSE t,
                   "UnicodeEncodeError", 0 - 1, 0 - 1)
    ELSE ConnectWritten(transport_write(IF att > 0 THEN discard_buffers(t) ELSE t,
                                        ConnectFrame(serial)))

\* a variant that never refuses connect()
ConnectNeverRejected(st) == FALSE

\* connect() is refused in every state but DISCONNECTED
ConnectRejected(st) == st # "DISCONNECTED"

\* a variant that runs one attempt more
MoreAttemptsInclusive(att, retries) == att <= retries

\* a timed-out attempt att is followed by another one
MoreAttempts(att, retries) == att < retries

\* how an attempt's outcome a ends the loop body, and what follows it
ConnectSettle(a, serial, att) ==
    /\ SetTransport(a.t)
    /\ connect_serial' = serial
    /\ IF a.kind = "ok"
         THEN /\ state' = "CONNECTED"
              /\ serial_number' = serial
              /\ pc' = "idle"
              /\ attempt' = att
              /\ result' = Result("connect", "ok", 0 - 1, a.first,
                                  a.t.written_data)
       ELSE IF a.kind = "TimeoutError" /\ MoreAttempts(att, max_retries)
         THEN \* sleep, then the next iteration
              /\ state' = "CONNECTING"
              /\ pc' = "connect_sleep"
              /\ attempt' = att + 1
              /\ result' = Result("connect", "pending", 0 - 1, a.first,
                                  a.t.written_data)
              /\ UNCHANGED serial_number
       ELSE \* retries exhausted, or any other exception
              /\ state' = "DISCONNECTED"
              /\ pc' = "idle"
              /\ attempt' = att
              /\ result' = Result("connect", a.kind, a.code, a.first,
                                  a.t.written_data)
              /\ UNCHANGED serial_number

\* the body of the for loop for attempt att and what follows it
ConnectLoop(t, serial, att) ==
    ConnectSettle(ConnectAttempt(t, serial, att), serial, att)

\* a call made while another connect() sleeps, or before the log is cleared,
\* finds the client not DISCONNECTED
Connect(serial) ==
    /\ UNCHANGED unit_vars
    /\ state = "DISCONNECTED" => (pc = "idle" /\ written_data = <<>>)
    /\ UNCHANGED << max_retries, gen, observed, delivered, version >>
    /\ IF ConnectRejected(state)
         THEN /\ result' = Result("connect", "ConnectionError", 0 - 1, 0 - 1,
                                  written_data)
              /\ UNCHANGED << state, serial_number, is_open, responses, read_buffer,
                              written_data, pc, attempt, connect_serial,
                              trace >>
       ELSE IF ~SerialNumberValid(serial)
         THEN \* the transport is opened before the serial is validated
              /\ is_open' = TRUE
              /\ result' = Result("connect", "ValueError", 0 - 1, 0 - 1,
                                  written_data)
              /\ UNCHANGED << state, serial_number, responses, read_buffer,
                              written_data, pc, attempt, connect_serial,
                              trace >>
       ELSE ConnectLoop([TransportAtStart EXCEPT !.is_open = TRUE], serial, 0)

\* connect() wakes from its sleep and runs the next attempt
ConnectRetry ==
    /\ UNCHANGED unit_vars
    /\ pc = "connect_sleep"
    /\ UNCHANGED << max_retries, gen, observed, delivered, version >>
    /\ ConnectLoop(Transport, connect_serial, attempt)

\* the task running connect() is cancelled while it sleeps between two
\* attempts: asyncio.CancelledError is no Exception, so neither except clause
\* of connect() runs
CancelConnect ==
    /\ UNCHANGED unit_vars
    /\ pc = "connect_sleep"
    /\ pc' = "idle"
    /\ result' = Result("connect", "CancelledError", 0 - 1, 0 - 1, written_data)
    /\ UNCHANGED << state, serial_number, max_retries, is_open, responses,
                    read_buffer, written_data, attempt, connect_serial, gen,
                    observed, delivered, version, trace >>

\* ---------------------------------------------------------------------
\* client.py: ControllerClient.disconnect
\* ---------------------------------------------------------------------
\* a variant without the early return
DisconnectNeverNoop(st) == FALSE

\* disconnect() returns at once when the client is not connected
DisconnectIsNoop(st) == st = "DISCONNECTED"

\* a variant that leaves DISCONNECTING only when the try block succeeded
DisconnectEndStateOnSuccess(kind) ==
    IF kind = "ok" THEN "DISCONNECTED" ELSE "DISCONNECTING"

\* the state the finally clause leaves, however the try block ended
DisconnectEndState(kind) == "DISCONNECTED"

\* the acknowledgment read: only a timeout is caught
DisconnectAck(r) ==
    Outcome(r.t, IF r.exc \in { "none", "TimeoutError" } THEN "ok" ELSE r.exc,
            0 - 1, r.first)

\* the BREAK frame is written; the acknowledgment is read if the write succeeded
DisconnectWritten(w) ==
    IF w.exc # "none" THEN Outcome(w.t, w.exc, 0 - 1, 0 - 1)
    ELSE DisconnectAck(_read_response(w.t))

\* a variant that keeps the serial number
DisconnectSettleKeepsSerial(d) ==
    /\ SetTransport(d.t)
    /\ state' = DisconnectEndState(d.kind)
    /\ UNCHANGED serial_number
    /\ result' = Result("disconnect", d.kind, 0 - 1, d.first, d.t.written_data)

DisconnectSettle(d) ==
    /\ SetTransport(d.t)
    /\ state' = DisconnectEndState(d.kind)
    /\ serial_number' = NoSerial
    /\ result' = Result("disconnect", d.kind, 0 - 1, d.first, d.t.written_data)

Disconnect ==
    /\ UNCHANGED unit_vars
    /\ pc = "idle"
    /\ written_data = <<>>
    /\ UNCHANGED << max_retries, pc, attempt, connect_serial, gen,
                    observed, delivered, version >>
    /\ IF DisconnectIsNoop(state)
         THEN /\ result' = Result("disconnect", "ok", 0 - 1, 0 - 1, written_data)
              /\ UNCHANGED << state, serial_number, is_open, responses,
                              read_buffer, written_data, trace >>
       ELSE DisconnectSettle(
                DisconnectWritten(
                    transport_write(TransportAtStart,
                                    _build_simple_frame(PCMI_BREAK))))

\* ---------------------------------------------------------------------
\* client.py: ControllerClient.__aexit__
\* ---------------------------------------------------------------------
\* a variant whose finally clause leaves the transport as it is
AExitNoClose(t) == t

\* the finally clause: the transport is closed if it is open
AExitClose(t) == IF t.is_open THEN [t EXCEPT !.is_open = FALSE] ELSE t

\* disconnect() ended, by returning or by raising; the finally clause runs
AExitSettle(d) ==
    /\ SetTransport(AExitClose(d.t))
    /\ state' = DisconnectEndState(d.kind)
    /\ serial_number' = NoSerial
    /\ result' = Result("aexit", d.kind, 0 - 1, d.first, d.t.written_data)

AExit ==
    /\ UNCHANGED unit_vars
    /\ pc = "idle"
    /\ written_data = <<>>
    /\ UNCHANGED << max_retries, pc, attempt, connect_serial, gen,
                    observed, delivered, version >>
    /\ IF DisconnectIsNoop(state)
         THEN /\ SetTransport(AExitClose(TransportAtStart))
              /\ result' = Result("aexit", "ok", 0 - 1, 0 - 1, written_data)
              /\ UNCHANGED << state, serial_number >>
       ELSE AExitSettle(
                DisconnectWritten(
                    transport_write(TransportAtStart,
                                    _build_simple_frame(PCMI_BREAK))))

\* ---------------------------------------------------------------------
\* client.py: multi-record download (download_zone_parameters over
\* _download_records)
\* ---------------------------------------------------------------------
NoRecord == [ ok |-> FALSE ]

DResult(t, kind, code, record, popped) ==
    [ t |-> t, kind |-> kind, code |-> code, record |-> record,
      popped |-> popped ]

\* a variant in which the state is restored after the loop, not in a finally
DownloadEndStateNoFinally(kind) ==
    IF kind \in { "end", "ok" } THEN "CONNECTED" ELSE "DOWNLOADING"

\* the finally clause of every download_* method
DownloadEndState(kind) == "CONNECTED"

\* a variant that lets a download start in every state but DISCONNECTED
EnsureNotDisconnected(st) == st # "DISCONNECTED"

\* _ensure_connected: passes in CONNECTED only, raises ConnectionError otherwise
_ensure_connected(st) == st = "CONNECTED"

\* a variant that repeats the request where the acknowledgment belongs
AcknowledgeWithRequest(t) ==
    transport_write(t, _build_simple_frame(PCMI_SEND_ZONE_PARM))

\* _download_records after its yield: OK_SEND_NEXT is written
AcknowledgeFrame(t) == transport_write(t, _build_simple_frame(PCMI_OK_SEND_NEXT))

\* a variant that lets a frame with a wrong checksum through
FrameRejectedButChecksum(parsed) ==
    parsed.result \notin { "SUCCESS", "INVALID_CHECKSUM" }

\* _download_records: a frame that did not parse raises ProtocolError
FrameRejected(parsed) == parsed.result # "SUCCESS"

\* _download_records: the one error code that ends the stream without an error
ErrorEndsStream(command_byte) == command_byte = PCMI_ER_NO_ZONE

\* a variant that acknowledges a frame before its record is yielded
DownloadRecordEager(r, zone_params, popped) ==
    IF zone_params.ok
      THEN DResult(AcknowledgeFrame(r.t).t, "record", 0 - 1, zone_params, popped)
    ELSE DResult(r.t, "ParseError", 0 - 1, NoRecord, popped)

\* the stream runs from a read to its next suspension or to its end:
\* _download_records reads a frame and classifies it; a data frame goes to the
\* body of the async for in download_zone_parameters, which yields a record
\* for a zone-parameter frame and otherwise asks for the next frame, and then
\* _download_records acknowledges with OK_SEND_NEXT and reads again
RECURSIVE DownloadRun(_, _)

\* download_zone_parameters: the record of a zone-parameter frame
DownloadRecord(r, zone_params, popped) ==
    IF zone_params.ok THEN DResult(r.t, "record", 0 - 1, zone_params, popped)
    ELSE DResult(r.t, "ParseError", 0 - 1, NoRecord, popped)

\* _download_records resumed: the acknowledgment is written, then the next read
DownloadAck(ack, popped) ==
    IF ack.exc # "none" THEN DResult(ack.t, ack.exc, 0 - 1, NoRecord, popped)
    ELSE DownloadRun(ack.t, popped)

\* _download_records: the parsed frame is classified
DownloadParsed(r, parsed, popped) ==
    IF parsed.result = "IndexError"
      THEN DResult(r.t, "IndexError", 0 - 1, NoRecord, popped)
    ELSE IF FrameRejected(parsed)
      THEN DResult(r.t, "ProtocolError", 0 - 1, NoRecord, popped)
    ELSE IF parsed.command_byte = PCMI_END_OF_RECORD
      THEN DResult(r.t, "end", 0 - 1, NoRecord, popped)
    ELSE IF parsed.command_byte \in ERROR_CODES
      THEN IF ErrorEndsStream(parsed.command_byte)
           THEN DResult(r.t, "end", 0 - 1, NoRecord, popped)
           ELSE DResult(r.t, "ControllerError", parsed.command_byte, NoRecord,
                        popped)
    ELSE IF parsed.command_byte \in { PCMI_ZP_STRING_1, PCMI_ZP_STRING_2 }
      THEN DownloadRecord(r, parse_zone_parameters(parsed.payload_hex), popped)
    ELSE DownloadAck(AcknowledgeFrame(r.t), popped)

\* _download_records: the frame reader's verdict on the response is noted
DownloadNoted(r, parsed, popped) ==
    DownloadParsed(Logged([ r EXCEPT !.exc = IF parsed.result = "SUCCESS"
                                             THEN "none" ELSE parsed.result ],
                          "parse", << parsed.command_byte >>),
                   parsed, popped)

\* _download_records: the outcome of read_until(ETX)
DownloadRead(r, popped) ==
    IF r.exc # "none" THEN DResult(r.t, r.exc, 0 - 1, NoRecord, popped \o r.popped)
    ELSE DownloadNoted(r, parse(r.value), popped \o r.popped)

DownloadRun(t, popped) == DownloadRead(transport_read_until(t, ETX), popped)

\* the caller creates the stream; nothing of its body runs yet
DownloadZoneParameters ==
    /\ UNCHANGED unit_vars
    /\ pc = "idle"
    /\ gen.status \in { "none", "finished" }
    /\ gen' = [ status |-> "created", kind |-> "zone_parameters" ]
    /\ observed' = <<>>
    /\ delivered' = <<>>
    /\ trace' = <<>>
    /\ result' = Result("download_zone_parameters", "ok", 0 - 1, 0 - 1,
                        written_data)
    /\ UNCHANGED << state, serial_number, max_retries, is_open, responses,
                    read_buffer, written_data, pc, attempt, connect_serial,
                    version >>

\* the stream stops: it yielded a record and is suspended, or it has ended
DownloadSettle(d) ==
    /\ SetTransport(d.t)
    /\ delivered' = delivered \o d.popped
    /\ result' = Result("next", d.kind, d.code, 0 - 1, d.t.written_data)
    /\ IF d.kind = "record"
         THEN /\ gen' = [gen EXCEPT !.status = "suspended"]
              /\ observed' = Append(observed, d.record)
              /\ state' = "DOWNLOADING"
       ELSE /\ gen' = [gen EXCEPT !.status = "finished"]
            /\ observed' = observed
            /\ state' = DownloadEndState(d.kind)

\* a frame is written (the request, or the acknowledgment of the frame whose
\* record was yielded) and the stream runs on
DownloadWritten(w) ==
    IF w.exc # "none" THEN DResult(w.t, w.exc, 0 - 1, NoRecord, <<>>)
    ELSE DownloadRun(w.t, <<>>)

\* the caller asks the stream for its next record
Next_Record ==
    /\ UNCHANGED unit_vars
    /\ pc = "idle"
    /\ gen.status \in { "created", "suspended" }
    /\ written_data = <<>>
    /\ Len(observed) < MaxRecords
    /\ UNCHANGED << serial_number, max_retries, pc, attempt, connect_serial,
                    version >>
    /\ IF gen.status = "created"
         THEN IF ~_ensure_connected(state)
              THEN \* _ensure_connected raises before the try block
                   /\ gen' = [gen EXCEPT !.status = "finished"]
                   /\ result' = Result("next", "ConnectionError", 0 - 1, 0 - 1,
                                       written_data)
                   /\ UNCHANGED << state, is_open, responses, read_buffer,
                                   written_data, observed, delivered, trace >>
              ELSE DownloadSettle(
                       DownloadWritten(
                           transport_write(TransportAtStart,
                                           _build_simple_frame(PCMI_SEND_ZONE_PARM))))
       ELSE \* resumed after the yield: _download_records acknowledges the frame
            DownloadSettle(DownloadWritten(AcknowledgeFrame(Transport)))

\* a variant in which closing the stream acknowledges the record it holds
StreamClosedAcknowledges(t) == AcknowledgeFrame(t).t

\* aclose on a suspended stream: GeneratorExit is raised at the yield of
\* _download_records, so the write of OK_SEND_NEXT after it does not run
StreamClosed(t) == t

\* the caller closes the stream (aclose) without asking for another record
CloseStream ==
    /\ UNCHANGED unit_vars
    /\ pc = "idle"
    /\ gen.status \in { "created", "suspended" }
    /\ gen' = [gen EXCEPT !.status = "finished"]
    /\ state' = IF gen.status = "suspended" THEN DownloadEndState("closed") ELSE state
    /\ result' = Result("aclose", "ok", 0 - 1, 0 - 1, written_data)
    /\ SetTransport(IF gen.status = "suspended" THEN StreamClosed(Transport)
                    ELSE Transport)
    /\ UNCHANGED << serial_number, max_retries, pc, attempt, connect_serial,
                    observed, delivered, version >>

\* ---------------------------------------------------------------------
\* client.py: download_device_parameters, download_device_variables
\* ---------------------------------------------------------------------
\* protocol/constants.py: the members of CommandCode for device data
CommandCode ==
    [ name \in { "PCMI_SEND_PARMDATA", "PCMI_PD_STRING_1", "PCMI_PD_STRING_2",
                 "PCMI_SEND_VARDATA", "PCMI_VD_STRING_1", "PCMI_VD_STRING_2" } |->
        CASE name = "PCMI_SEND_PARMDATA" -> 143
          [] name = "PCMI_PD_STRING_1" -> 144
          [] name = "PCMI_PD_STRING_2" -> 183
          [] name = "PCMI_SEND_VARDATA" -> 145
          [] name = "PCMI_VD_STRING_1" -> 146
          [] name = "PCMI_VD_STRING_2" -> 185 ]

AttributeError == 0 - 3000000

\* CommandCode.<name>: the member's value; a name that is no member of the
\* enumeration raises AttributeError
GetCommandCode(name) ==
    IF name \in DOMAIN CommandCode THEN CommandCode[name] ELSE AttributeError

DeviceKinds == { "device_parameters", "device_variables" }

\* the member of CommandCode each method names for its request
DeviceRequestName(kind) ==
    IF kind = "device_parameters" THEN "PCMI_SEND_DEVICE_PARM"
    ELSE "PCMI_SEND_DEVICE_VAR"

\* the zones a caller asks for (0 is all zones)
DeviceZones == { 0, 1 }

\* the caller creates the stream; nothing of its body runs yet
DownloadDevice(kind, zone_number) ==
    /\ UNCHANGED unit_vars
    /\ pc = "idle"
    /\ gen.status \in { "none", "finished" }
    /\ gen' = [ status |-> "created", kind |-> kind, zone |-> zone_number ]
    /\ observed' = <<>>
    /\ delivered' = <<>>
    /\ trace' = <<>>
    /\ result' = Result(kind, "ok", 0 - 1, 0 - 1, written_data)
    /\ UNCHANGED << state, serial_number, max_retries, is_open, responses,
                    read_buffer, written_data, pc, attempt, connect_serial,
                    version >>

\* the request: the command is looked up while the frame is built, inside the
\* try block; with the command found the frame is written and the stream
\* follows _download_records
DeviceRequested(command, zone_number) ==
    IF command = AttributeError
      THEN DResult(TransportAtStart, "AttributeError", 0 - 1, NoRecord, <<>>)
    ELSE DownloadWritten(
             transport_write(TransportAtStart,
                             _build_frame(command, << zone_number >>)))

\* the caller asks a device stream for its first record
NextDeviceRecord ==
    /\ UNCHANGED unit_vars
    /\ pc = "idle"
    /\ gen.status = "created"
    /\ gen.kind \in DeviceKinds
    /\ written_data = <<>>
    /\ UNCHANGED << serial_number, max_retries, pc, attempt, connect_serial,
                    version >>
    /\ IF ~_ensure_connected(state)
         THEN /\ gen' = [gen EXCEPT !.status = "finished"]
              /\ result' = Result("next", "ConnectionError", 0 - 1, 0 - 1,
                                  written_data)
              /\ UNCHANGED << state, is_open, responses, read_buffer,
                              written_data, observed, delivered, trace >>
       ELSE DownloadSettle(
                DeviceRequested(GetCommandCode(DeviceRequestName(gen.kind)),
                                gen.zone))

\* ---------------------------------------------------------------------
\* client.py: download_history, download_alarms
\* ---------------------------------------------------------------------
PCMI_SEND_HISTORY == 147
PCMI_SEND_ALARM == 164

HistoryKinds == { "history", "alarms" }

\* the zones and groups a caller asks for: all zones, zone 1, zone 13, and a
\* zone that is no byte; the first and the last group
HistoryZones == { 0, 1, 13, 256 }
HistoryGroups == { 1, 9 }

\* bytes([...]): ValueError for a number outside range(0, 256)
PyBytes(numbers) ==
    IF \A i \in 1..Len(numbers) : numbers[i] \in 0..255
    THEN numbers ELSE << ValueError >>

\* the caller creates the stream; nothing of its body runs yet
DownloadHistory(zone_number, group) ==
    /\ UNCHANGED unit_vars
    /\ pc = "idle"
    /\ gen.status \in { "none", "finished" }
    /\ gen' = [ status |-> "created", kind |-> "history",
                request |-> << zone_number, group >> ]
    /\ observed' = <<>>
    /\ delivered' = <<>>
    /\ trace' = <<>>
    /\ result' = Result("download_history", "ok", 0 - 1, 0 - 1, written_data)
    /\ UNCHANGED << state, serial_number, max_retries, is_open, responses,
                    read_buffer, written_data, pc, attempt, connect_serial,
                    version >>

DownloadAlarms(zone_number) ==
    /\ UNCHANGED unit_vars
    /\ pc = "idle"
    /\ gen.status \in { "none", "finished" }
    /\ gen' = [ status |-> "created", kind |-> "alarms",
                request |-> << zone_number >> ]
    /\ observed' = <<>>
    /\ delivered' = <<>>
    /\ trace' = <<>>
    /\ result' = Result("download_alarms", "ok", 0 - 1, 0 - 1, written_data)
    /\ UNCHANGED << state, serial_number, max_retries, is_open, responses,
                    read_buffer, written_data, pc, attempt, connect_serial,
                    version >>

\* the request: request_data = bytes([zone_number, group]) or
\* bytes([zone_number]) is built inside the try block, the frame is written
\* and the stream follows _download_records
HistoryRequested(command, request_data) ==
    IF request_data = << ValueError >>
      THEN DResult(TransportAtStart, "ValueError", 0 - 1, NoRecord, <<>>)
    ELSE DownloadWritten(
             transport_write(TransportAtStart, _build_frame(command, request_data)))

\* the caller asks a history or alarm stream for its first record; the
\* frames that reach the stream hold no history and no alarm record
NextHistoryRecord ==
    /\ UNCHANGED unit_vars
    /\ pc = "idle"
    /\ gen.status = "created"
    /\ gen.kind \in HistoryKinds
    /\ written_data = <<>>
    /\ UNCHANGED << serial_number, max_retries, pc, attempt, connect_serial,
                    version >>
    /\ IF ~_ensure_connected(state)
         THEN /\ gen' = [gen EXCEPT !.status = "finished"]
              /\ result' = Result("next", "ConnectionError", 0 - 1, 0 - 1,
                                  written_data)
              /\ UNCHANGED << state, is_open, responses, read_buffer,
                              written_data, observed, delivered, trace >>
       ELSE DownloadSettle(
                HistoryRequested(IF gen.kind = "history" THEN PCMI_SEND_HISTORY
                                 ELSE PCMI_SEND_ALARM,
                                 PyBytes(gen.request)))

\* ---------------------------------------------------------------------
\* client.py: ControllerClient.download_version
\* ---------------------------------------------------------------------
ReplacementChar == 65533

\* bytes.decode("ascii", errors="replace")
DecodeReplace(data) ==
    [ i \in 1..Len(data) |-> IF data[i] > 127 THEN ReplacementChar ELSE data[i] ]

strip(text) == RStrip(LStrip(text))

VersionRecord(version_data, payload_hex) ==
    [ ok |-> TRUE,
      version_string |-> strip(Slice(version_data, 0, 14)),
      date_code |-> IF Len(version_data) >= 22
                    THEN strip(Slice(version_data, 14, 22)) ELSE <<>>,
      raw_data |-> payload_hex ]

VResult(t, kind, record) == [ t |-> t, kind |-> kind, record |-> record ]

\* the parsed response is classified
VersionParsed(r, parsed) ==
    IF parsed.result = "IndexError" THEN VResult(r.t, "IndexError", NoRecord)
    ELSE IF parsed.result # "SUCCESS" THEN VResult(r.t, "ProtocolError", NoRecord)
    ELSE IF parsed.command_byte = PCMI_SV_STRING
      THEN VResult(r.t, "ok",
                   VersionRecord(DecodeReplace(parsed.payload), parsed.payload_hex))
    ELSE VResult(r.t, "ProtocolError", NoRecord)

\* the outcome of read_until(ETX)
VersionRead(r) ==
    IF r.exc # "none" THEN VResult(r.t, r.exc, NoRecord)
    ELSE VersionParsed(r, parse(r.value))

\* the request is written; the response is read if the write succeeded
VersionWritten(w) ==
    IF w.exc # "none" THEN VResult(w.t, w.exc, NoRecord)
    ELSE VersionRead(transport_read_until(w.t, ETX))

VersionSettle(v) ==
    /\ SetTransport(v.t)
    /\ state' = DownloadEndState(v.kind)
    /\ version' = v.record
    /\ result' = Result("download_version", v.kind, 0 - 1, 0 - 1, v.t.written_data)

DownloadVersion ==
    /\ UNCHANGED unit_vars
    /\ pc = "idle"
    /\ written_data = <<>>
    /\ UNCHANGED << serial_number, max_retries, pc, attempt, connect_serial,
                    gen, observed, delivered >>
    /\ IF ~_ensure_connected(state)
         THEN /\ result' = Result("download_version", "ConnectionError", 0 - 1, 0 - 1,
                                  written_data)
              /\ UNCHANGED << state, is_open, responses, read_buffer, written_data,
                              version, trace >>
       ELSE VersionSettle(
                VersionWritten(
                    transport_write(TransportAtStart,
                                    _build_simple_frame(PCMI_SEND_VERSION))))

\* ---------------------------------------------------------------------
\* The controller and the owner of the transport
\* ---------------------------------------------------------------------
Zeros(n) == [ i \in 1..n |-> 48 ]

\* a framed response as a controller sends it: command, length indicator,
\* hex payload, checksum, ETX
Framed(command, li, payload_hex) ==
    append_checksum(<< command >> \o li \o payload_hex) \o << ETX >>

\* a 42-byte zone-parameter record for a zone: size 21 words, record type 1,
\* format byte 0x10, setpoint 72.0 F (0x02D0), humidity setpoint 50 (0x32)
ZoneRecordHex(zone) ==
    << 48, 48, 49, 53 >> \o << 48, 48 + zone >> \o << 48, 49 >> \o << 49, 48 >>
    \o << 48, 48 >> \o << 48, 50, 68, 48 >> \o Zeros(32) \o << 51, 50 >> \o Zeros(34)

ZoneFrame(zone) == Framed(PCMI_ZP_STRING_1, << 49, 53 >>, ZoneRecordHex(zone))

\* the same record as a non-swap controller sends it: multi-byte fields low
\* byte first (size 0x0015 as "1500", setpoint 0x02D0 as "D002"), with the
\* given record format in the upper nibble of the format byte
NonSwapRecordHex(zone, format) ==
    << 49, 53, 48, 48 >> \o << 48, 48 + zone >> \o << 48, 49 >>
    \o << 48 + format, 48 >> \o << 48, 48 >> \o << 68, 48, 48, 50 >>
    \o Zeros(32) \o << 51, 50 >> \o Zeros(34)

\* the non-swap response frame: ZP_STRING_2 with a 2-byte length indicator
NonSwapZoneFrame(zone, format) ==
    Framed(PCMI_ZP_STRING_2, << 49, 53, 48, 48 >>, NonSwapRecordHex(zone, format))

\* the same frame with its last checksum character changed
BadChecksum(frame) ==
    [ frame EXCEPT ![Len(frame) - 1] = IF @ = 48 THEN 49 ELSE 48 ]

\* "V2.9" followed by its checksum
VersionFrame == Framed(PCMI_SV_STRING, <<>>, << 86, 50, 46, 57 >>)

\* what a controller may send while the caller connects and disconnects:
\* the two acknowledgments, an error code that is among ACKNOWLEDGMENT_CODES
\* and one that is not, each as a single byte, and a framed response whose
\* checksum is wrong
ConnectChunks ==
    { << PCMI_SN_ACK >>, << PCMI_BR_ACK >>, << PCMI_ERROR >>,
      << PCMI_ER_SERIAL_NUM >>, BadChecksum(ZoneFrame(1)) }

\* what a controller may send during a download: END_OF_RECORD and two error
\* codes, each followed by ETX, a zone-parameter frame, one with a wrong
\* checksum, one for the invalid zone 0, and the version frame
DownloadChunks ==
    { << PCMI_END_OF_RECORD, ETX >>,
      << PCMI_ER_NO_ZONE, ETX >>, << PCMI_ER_HANDS_OFF, ETX >>,
      ZoneFrame(1), BadChecksum(ZoneFrame(1)), ZoneFrame(0),
      VersionFrame }

\* what a controller may send in a zone-parameter stream: frames for zones 1
\* and 2, and END_OF_RECORD as the single byte and followed by ETX
StreamChunks ==
    { << PCMI_END_OF_RECORD >>, << PCMI_END_OF_RECORD, ETX >>,
      ZoneFrame(1), ZoneFrame(2) }

\* MockTransport.add_response: the controller's next bytes arrive
AddResponse(chunk) ==
    /\ UNCHANGED unit_vars
    /\ Len(responses) < MaxQueue
    /\ Len(read_buffer) <= MaxLeftover
    /\ responses' = Append(responses, chunk)
    /\ UNCHANGED << state, serial_number, max_retries, is_open, read_buffer,
                    written_data, pc, attempt, connect_serial, gen,
                    observed, delivered, result, version, trace >>

\* MockTransport.close, by the owner of the transport
Close ==
    /\ UNCHANGED unit_vars
    /\ is_open
    /\ is_open' = FALSE
    /\ UNCHANGED << state, serial_number, max_retries, responses, read_buffer,
                    written_data, pc, attempt, connect_serial, gen,
                    observed, delivered, result, version, trace >>

\* MockTransport.clear_written
ClearWritten ==
    /\ UNCHANGED unit_vars
    /\ pc = "idle"
    /\ written_data # <<>>
    /\ written_data' = <<>>
    /\ UNCHANGED << state, serial_number, max_retries, is_open, responses,
                    read_buffer, pc, attempt, connect_serial, gen,
                    observed, delivered, result, version, trace >>

\* ---------------------------------------------------------------------
\* parsers/hex_reader.py: HexStringReader, the cursor
\* ---------------------------------------------------------------------
\* how far below 0 a cursor is followed
MaxUnderrun == 2

\* the outcome of a cursor call: the cursor afterwards, the exception raised
\* ("none" when the call returned) and the value returned, as a sequence
CursorResult(r, exc, value) == [ reader |-> r, exc |-> exc, value |-> value ]

\* HexStringReader(data, endian_strategy): a text of odd length is refused
HexStringReader(data) ==
    IF Len(data) % 2 # 0 THEN CursorResult(NoReader, "ValueError", <<>>)
    ELSE CursorResult([ data |-> UpperText(data), length |-> Len(data),
                        position |-> 0 ], "none", <<>>)

\* _check_bounds does not raise
_check_bounds(r, char_count) == r.position + char_count <= r.length

Advance(r, char_count) == [r EXCEPT !.position = @ + char_count]

skip(r, char_count) ==
    IF ~_check_bounds(r, char_count) THEN CursorResult(r, "ParseError", <<>>)
    ELSE CursorResult(Advance(r, char_count), "none", <<>>)

skip_bytes(r, byte_count) == skip(r, byte_count * 2)

seek(r, char_position) ==
    IF char_position < 0 \/ char_position > r.length
      THEN CursorResult(r, "ParseError", <<>>)
    ELSE CursorResult([r EXCEPT !.position = char_position], "none", <<>>)

seek_byte(r, byte_position) == seek(r, byte_position * 2)

reset(r) == CursorResult([r EXCEPT !.position = 0], "none", <<>>)

\* the text is parsed after the cursor has moved
CursorParsed(r, v) ==
    IF v = ValueError THEN CursorResult(r, "ParseError", <<>>)
    ELSE CursorResult(r, "none", << v >>)

\* HexStringReader.read_byte on a cursor
cursor_read_byte(r) ==
    IF ~_check_bounds(r, 2) THEN CursorResult(r, "ParseError", <<>>)
    ELSE CursorParsed(Advance(r, 2),
                      PyIntHex(Slice(r.data, r.position, r.position + 2)))

CursorBytes(r, b) ==
    IF b = FromHexError THEN CursorResult(r, "ParseError", <<>>)
    ELSE CursorResult(r, "none", b)

\* HexStringReader.read_bytes on a cursor
cursor_read_bytes(r, count) ==
    IF ~_check_bounds(r, count * 2) THEN CursorResult(r, "ParseError", <<>>)
    ELSE CursorBytes(Advance(r, count * 2),
                     fromhex(Slice(r.data, r.position, r.position + count * 2)))

\* the endian strategy reads two bytes; fewer make it raise
CursorWord(c, endian) ==
    IF c.exc # "none" THEN c
    ELSE IF Len(c.value) < 2
      THEN CursorResult(c.reader,
                        IF endian = SWAP_STRATEGY THEN "IndexError"
                        ELSE "struct.error", <<>>)
    ELSE CursorResult(c.reader, "none",
                      << endian_read_uint16(c.value, endian) >>)

\* HexStringReader.read_uint16 on a cursor
cursor_read_uint16(r, endian) == CursorWord(cursor_read_bytes(r, 2), endian)

\* peek_byte(offset): the cursor stays where it is
peek_byte(r, offset) ==
    IF r.position + offset * 2 < 0 \/ r.position + offset * 2 + 2 > r.length
      THEN CursorResult(r, "ParseError", <<>>)
    ELSE CursorParsed(r, PyIntHex(Slice(r.data, r.position + offset * 2,
                                        r.position + offset * 2 + 2)))

\* slice(byte_count): the hex text consumed
slice(r, byte_count) ==
    IF ~_check_bounds(r, byte_count * 2) THEN CursorResult(r, "ParseError", <<>>)
    ELSE CursorResult(Advance(r, byte_count * 2), "none",
                      Slice(r.data, r.position, r.position + byte_count * 2))

\* read_remaining_hex(): the rest of the text; the cursor goes to the end
read_remaining_hex(r) ==
    CursorResult([r EXCEPT !.position = r.length], "none",
                 Slice(r.data, r.position, Len(r.data)))

\* the texts a caller makes a cursor of: empty, one byte, two bytes (lower
\* case), a text with a character that is no hex digit, and one of odd length
CursorTexts ==
    { <<>>, << 48, 65 >>, << 101, 56, 48, 51 >>, << 48, 49, 71, 48, 48, 50 >>,
      << 48, 49, 50 >> }

\* the counts, offsets and positions a caller passes
CursorArgs == (0 - 2)..3

\* a cursor call ended: the cursor and the outcome are kept
CursorSettle(op, n, c) ==
    /\ reader' = c.reader
    /\ ret' = [ op |-> op, n |-> n, exc |-> c.exc, value |-> c.value,
                before |-> reader.position ]
    /\ UNCHANGED << registry, arg >>
    /\ UNCHANGED client_vars

\* the cursor exists and has not run further below 0 than it is followed
CursorInUse == ret.op # "none" /\ reader.position >= 0 - MaxUnderrun

NewReader == \E data \in CursorTexts :
    /\ arg' = data
    /\ reader' = HexStringReader(data).reader
    /\ ret' = [ op |-> "new", n |-> 0, exc |-> HexStringReader(data).exc,
                value |-> <<>>, before |-> 0 ]
    /\ UNCHANGED registry
    /\ UNCHANGED client_vars

CursorUsable == CursorInUse /\ ~(ret.op = "new" /\ ret.exc # "none")

Skip == CursorUsable /\ \E n \in CursorArgs : CursorSettle("skip", n, skip(reader, n))

SkipBytes ==
    CursorUsable /\ \E n \in CursorArgs :
        CursorSettle("skip_bytes", n, skip_bytes(reader, n))

Seek == CursorUsable /\ \E n \in CursorArgs : CursorSettle("seek", n, seek(reader, n))

SeekByte ==
    CursorUsable /\ \E n \in CursorArgs :
        CursorSettle("seek_byte", n, seek_byte(reader, n))

Reset == CursorUsable /\ CursorSettle("reset", 0, reset(reader))

ReadByte == CursorUsable /\ CursorSettle("read_byte", 0, cursor_read_byte(reader))

ReadBytes ==
    CursorUsable /\ \E n \in CursorArgs :
        CursorSettle("read_bytes", n, cursor_read_bytes(reader, n))

ReadUint16 ==
    CursorUsable /\ \E endian \in { SWAP_STRATEGY, NON_SWAP_STRATEGY } :
        CursorSettle("read_uint16", 0, cursor_read_uint16(reader, endian))

PeekByte ==
    CursorUsable /\ \E n \in CursorArgs :
        CursorSettle("peek_byte", n, peek_byte(reader, n))

SliceBytes ==
    CursorUsable /\ \E n \in CursorArgs : CursorSettle("slice", n, slice(reader, n))

ReadRemainingHex ==
    CursorUsable /\ CursorSettle("read_remaining_hex", 0, read_remaining_hex(reader))

\* the client and its transport, never used
ClientAtRest ==
    /\ state = "DISCONNECTED"
    /\ serial_number = NoSerial
    /\ max_retries = 0
    /\ is_open = FALSE
    /\ responses = <<>>
    /\ read_buffer = <<>>
    /\ written_data = <<>>
    /\ pc = "idle"
    /\ attempt = 0
    /\ connect_serial = NoSerial
    /\ gen = [ status |-> "none", kind |-> "none" ]
    /\ observed = <<>>
    /\ delivered = <<>>
    /\ version = NoRecord
    /\ result = Result("none", "ok", 0 - 1, 0 - 1, <<>>)
    /\ trace = <<>>

InitCursor == ClientAtRest /\ UnitsAtRest

\* a caller makes cursors and uses them
NextCursor ==
    \/ NewReader
    \/ Skip
    \/ SkipBytes
    \/ Seek
    \/ SeekByte
    \/ Reset
    \/ ReadByte
    \/ ReadBytes
    \/ ReadUint16
    \/ PeekByte
    \/ SliceBytes
    \/ ReadRemainingHex

SpecCursor == InitCursor /\ [][NextCursor]_vars

\* ---------------------------------------------------------------------
\* protocol/checksums.py: append_checksum and validate_checksum on their own
\* ---------------------------------------------------------------------
\* the longest byte string a caller passes
MaxData == 2

\* the bytes a caller's data is made of
DataBytes == { 0, 10, 130, 255 }

\* the byte strings of DataBytes up to a length
DataOfLength(n) == UNION { [1..k -> DataBytes] : k \in 0..n }

\* a byte with one bit flipped
FlipBit(b, k) == IF (b \div (2 ^ k)) % 2 = 1 THEN b - 2 ^ k ELSE b + 2 ^ k

InitChecksum ==
    /\ ClientAtRest
    /\ reader = NoReader
    /\ registry = NoRegistry
    /\ arg \in DataOfLength(MaxData)
    /\ ret = NoRet

\* the caller appends the checksum and validates the result
AppendChecksum ==
    /\ ret.op = "none"
    /\ ret' = [ op |-> "append", frame |-> append_checksum(arg),
                valid |-> validate_checksum(append_checksum(arg), Len(arg)),
                index |-> 0 ]
    /\ UNCHANGED << reader, registry, arg >>
    /\ UNCHANGED client_vars

\* one bit of the frame changes on the way, in the data or in one of the two
\* checksum characters, and the caller validates
CorruptAndValidate ==
    /\ ret.op = "append"
    /\ \E i \in 1..Len(ret.frame), k \in 0..7 :
          ret' = [ op |-> "flip",
                   frame |-> [ret.frame EXCEPT ![i] = FlipBit(@, k)],
                   valid |-> validate_checksum(
                                 [ret.frame EXCEPT ![i] = FlipBit(@, k)],
                                 Len(arg)),
                   index |-> i ]
    /\ UNCHANGED << reader, registry, arg >>
    /\ UNCHANGED client_vars

NextChecksum ==
    \/ AppendChecksum
    \/ CorruptAndValidate

SpecChecksum == InitChecksum /\ [][NextChecksum]_vars

\* ---------------------------------------------------------------------
\* protocol/length_indicators.py: the record length indicator on its own
\* ---------------------------------------------------------------------
\* the largest word count a caller encodes
MaxWords == 65535

InitLength ==
    /\ ClientAtRest
    /\ reader = NoReader
    /\ registry = NoRegistry
    /\ arg \in { << n >> : n \in 0..MaxWords }
    /\ ret = NoRet

\* the outcome of encoding a byte count and decoding the characters
Encoded(op, chars, decoded) ==
    [ op |-> op, chars |-> chars, decoded |-> decoded ]

\* encode_2byte_rli of the byte count of arg words, then decode_2byte_rli
EncodeDecode2Byte ==
    /\ ret.op = "none"
    /\ ret' = Encoded("rli2", encode_2byte_rli(2 * arg[1]),
                      decode_2byte_rli(encode_2byte_rli(2 * arg[1])))
    /\ UNCHANGED << reader, registry, arg >>
    /\ UNCHANGED client_vars

\* encode_1byte_rli of the byte count of arg words, then decode_1byte_rli
EncodeDecode1Byte ==
    /\ ret.op = "none"
    /\ ret' = Encoded("rli1", encode_1byte_rli(2 * arg[1]),
                      decode_1byte_rli(encode_1byte_rli(2 * arg[1])))
    /\ UNCHANGED << reader, registry, arg >>
    /\ UNCHANGED client_vars

NextLength ==
    \/ EncodeDecode2Byte
    \/ EncodeDecode1Byte

SpecLength == InitLength /\ [][NextLength]_vars

\* ---------------------------------------------------------------------
\* protocol/frame_reader.py: FrameReader.parse on framed buffers
\* ---------------------------------------------------------------------
\* hex payloads of n characters made of '0' and 'F'
\* the longest buffer: STX, command, four length characters, four payload
\* characters, two checksum characters, ETX
MaxFrame == 13

FramePayloads(n) == [1..n -> { 48, 70 }]

\* command, length indicator and payload of the four framed shapes: a word of
\* payload after a 1-byte and after a 2-byte RLI, a byte after a VLI of two
\* or of four characters, and a byte in a CR-delimited frame
FrameBodies ==
    { << c >> \o << 48, 49 >> \o p :
          c \in ONE_BYTE_RLI_COMMANDS, p \in FramePayloads(4) }
    \cup { << c >> \o << 48, 49, 48, 48 >> \o p :
              c \in TWO_BYTE_RLI_COMMANDS, p \in FramePayloads(4) }
    \cup { << c >> \o (IF get_vli_size(c) = 2 THEN << 48, 49 >>
                        ELSE << 48, 48, 48, 49 >>) \o p :
              c \in VLI_COMMANDS, p \in FramePayloads(2) }
    \cup { << PCMI_SV_STRING >> \o p : p \in FramePayloads(2) }

\* str.lower() on ASCII text
LowerText(s) == [ i \in 1..Len(s) |-> IF s[i] \in 65..90 THEN s[i] + 32 ELSE s[i] ]

\* the checksum characters a buffer may arrive with: the two a sender
\* appends, the same in lower case, those of another sum, the two exchanged,
\* two that are no hex digits, and the first replaced by a space or a plus
ChecksumChars(good, other) ==
    { good, LowerText(good), other, << good[2], good[1] >>, << 90, 90 >>,
      << 32, good[2] >>, << 43, good[2] >> }

\* the buffers made of a body: each kind of checksum characters, with and
\* without the STX
FrameInputsOf(body) ==
    { [ body |-> body, cs |-> c, stx |-> x ] :
          c \in ChecksumChars(
                    SubSeq(append_checksum(body), Len(body) + 1, Len(body) + 2),
                    HexUpper(<< (calculate_checksum(body) + 1) % 256 >>)),
          x \in BOOLEAN }

FrameBuffer(input) ==
    (IF input.stx THEN << STX >> ELSE <<>>) \o input.body \o input.cs \o << ETX >>

InitFrames ==
    /\ ClientAtRest
    /\ reader = NoReader
    /\ registry = NoRegistry
    /\ arg \in UNION { FrameInputsOf(body) : body \in FrameBodies }
    /\ ret = NoRet

\* the caller parses the buffer
ParseFrame ==
    /\ ret.op = "none"
    /\ ret' = [ op |-> "parse", frame |-> parse(FrameBuffer(arg)) ]
    /\ UNCHANGED << reader, registry, arg >>
    /\ UNCHANGED client_vars

\* the checksum characters of the buffer are those append_checksum writes
FrameIsValid(input) ==
    input.body \o input.cs = append_checksum(input.body)

\* the caller parses the first n bytes of a valid frame, n short of the whole
ParsePrefix(n) ==
    /\ ret.op = "none"
    /\ FrameIsValid(arg)
    /\ n < Len(FrameBuffer(arg))
    /\ ret' = [ op |-> "prefix", n |-> n,
                frame |-> parse(SubSeq(FrameBuffer(arg), 1, n)) ]
    /\ UNCHANGED << reader, registry, arg >>
    /\ UNCHANGED client_vars

\* the caller parses a buffer that holds one response code and nothing else
ParseCode(code) ==
    /\ ret.op = "none"
    /\ ret' = [ op |-> "code", code |-> code, frame |-> parse(<< code >>) ]
    /\ UNCHANGED << reader, registry, arg >>
    /\ UNCHANGED client_vars

NextFrames ==
    \/ ParseFrame
    \/ \E n \in 1..MaxFrame : ParsePrefix(n)
    \/ \E code \in ACKNOWLEDGMENT_CODES \cup ERROR_CODES : ParseCode(code)

SpecFrames == InitFrames /\ [][NextFrames]_vars

\* ---------------------------------------------------------------------
\* parsers/device_registry.py: DeviceParserRegistry
\* ---------------------------------------------------------------------

\* strategy instances told apart per device type
MaxStrategies == 2

\* models/records.py: the members of DeviceType the registry is driven with
DeviceType == [ UNKNOWN |-> 0, FAN |-> 8, VFD_FAN |-> 26 ]

DeviceTypes == { DeviceType[name] : name \in DOMAIN DeviceType }

\* a strategy instance: its device_type property and its identity
Strategies == [ device_type : DeviceTypes, id : 1..MaxStrategies ]

\* Python's None
PyNone == [ none |-> TRUE ]

\* the two dictionaries of the registry
RegistryMaps == { "parameter_strategies", "variable_strategies" }

\* self._parameter_strategies[strategy.device_type] = strategy
register_strategy(strategies, strategy) ==
    [ t \in (DOMAIN strategies) \cup { strategy.device_type } |->
          IF t = strategy.device_type THEN strategy ELSE strategies[t] ]

\* self._parameter_strategies.get(device_type)
get_strategy(strategies, device_type) ==
    IF device_type \in DOMAIN strategies THEN strategies[device_type] ELSE PyNone

\* device_type in self._parameter_strategies
has_strategy(strategies, device_type) == device_type \in DOMAIN strategies

\* an unregister that answers without deleting
UnregisterKeeps(strategies, device_type) ==
    [ strategies |-> strategies, value |-> device_type \in DOMAIN strategies ]

\* unregister_parameter_strategy / unregister_variable_strategy: the
\* dictionary afterwards and the value returned
unregister_strategy(strategies, device_type) ==
    IF device_type \in DOMAIN strategies
    THEN [ strategies |-> [ t \in (DOMAIN strategies) \ { device_type } |->
                                strategies[t] ],
           value |-> TRUE ]
    ELSE [ strategies |-> strategies, value |-> FALSE ]

\* clear()
clear(r) == [ parameter_strategies |-> <<>>, variable_strategies |-> <<>> ]

InitRegistry ==
    /\ ClientAtRest
    /\ UnitsAtRest

\* register_parameter_strategy(strategy) / register_variable_strategy(strategy)
RegisterStrategy(map, strategy) ==
    /\ registry' = [ registry EXCEPT ![map] = register_strategy(@, strategy) ]
    /\ ret' = [ op |-> "register", map |-> map,
                device_type |-> strategy.device_type, value |-> PyNone,
                before |-> registry ]
    /\ UNCHANGED << reader, arg >>
    /\ UNCHANGED client_vars

\* unregister_parameter_strategy(device_type) /
\* unregister_variable_strategy(device_type)
UnregisterStrategy(map, device_type) ==
    LET u == unregister_strategy(registry[map], device_type)
    IN  /\ registry' = [ registry EXCEPT ![map] = u.strategies ]
        /\ ret' = [ op |-> "unregister", map |-> map,
                    device_type |-> device_type, value |-> u.value,
                    before |-> registry ]
        /\ UNCHANGED << reader, arg >>
        /\ UNCHANGED client_vars

ClearRegistry ==
    /\ registry' = clear(registry)
    /\ ret' = [ op |-> "clear", map |-> "both", device_type |-> DeviceType.UNKNOWN,
                value |-> PyNone, before |-> registry ]
    /\ UNCHANGED << reader, arg >>
    /\ UNCHANGED client_vars

NextRegistry ==
    \/ \E map \in RegistryMaps, strategy \in Strategies :
            RegisterStrategy(map, strategy)
    \/ \E map \in RegistryMaps, device_type \in DeviceTypes :
            UnregisterStrategy(map, device_type)
    \/ ClearRegistry

SpecRegistry == InitRegistry /\ [][NextRegistry]_vars

\* ---------------------------------------------------------------------
\* Specification
\* ---------------------------------------------------------------------
Init ==
    /\ UnitsAtRest
    /\ state = "DISCONNECTED"
    /\ serial_number = NoSerial
    /\ max_retries \in 0..MaxRetriesBound
    /\ is_open = FALSE
    /\ responses = <<>>
    /\ read_buffer = <<>>
    /\ written_data = <<>>
    /\ pc = "idle"
    /\ attempt = 0
    /\ connect_serial = NoSerial
    /\ gen = [ status |-> "none", kind |-> "none" ]
    /\ observed = <<>>
    /\ delivered = <<>>
    /\ version = NoRecord
    /\ result = Result("none", "ok", 0 - 1, 0 - 1, <<>>)
    /\ trace = <<>>

\* connecting and disconnecting
Next ==
    \/ \E serial \in SerialArgs : Connect(serial)
    \/ ConnectRetry
    \/ CancelConnect
    \/ Disconnect
    \/ \E chunk \in ConnectChunks : AddResponse(chunk)
    \/ Close
    \/ ClearWritten

Spec == Init /\ [][Next]_vars

\* complete responses that answer no connect frame: the acknowledgment of
\* BREAK, a zone-parameter frame without and with an STX, the version frame
UnexpectedResponses ==
    { << PCMI_BR_ACK >>, ZoneFrame(1), << STX >> \o ZoneFrame(1), VersionFrame }

\* what a controller may send while connect retries: SN_ACK, a response cut
\* short after its second byte, STX followed by the byte of SN_ACK or of a
\* zone-parameter frame, whose ETX never arrives, and the complete responses
\* that answer no connect frame
RetryChunks ==
    { << PCMI_SN_ACK >>, << STX, PCMI_SN_ACK >>, << STX, PCMI_ZP_STRING_2 >> }
        \cup UnexpectedResponses

\* connecting with retries while responses arrive late or cut short
NextRetry ==
    \/ Connect(Serial1)
    \/ ConnectRetry
    \/ Disconnect
    \/ \E chunk \in RetryChunks : AddResponse(chunk)
    \/ ClearWritten

SpecRetry == Init /\ [][NextRetry]_vars

\* a client that connect("00009001") has connected, the transport's log cleared
InitDownload ==
    /\ UnitsAtRest
    /\ state = "CONNECTED"
    /\ serial_number = Serial1
    /\ max_retries = 0
    /\ is_open = TRUE
    /\ responses = <<>>
    /\ read_buffer = <<>>
    /\ written_data = <<>>
    /\ pc = "idle"
    /\ attempt = 0
    /\ connect_serial = Serial1
    /\ gen = [ status |-> "none", kind |-> "none" ]
    /\ observed = <<>>
    /\ delivered = <<>>
    /\ version = NoRecord
    /\ result = Result("connect", "ok", 0 - 1, PCMI_SN_ACK, <<>>)
    /\ trace = <<>>

\* downloads, every way they end
NextDownload ==
    \/ DownloadZoneParameters
    \/ Next_Record
    \/ CloseStream
    \/ DownloadVersion
    \/ \E chunk \in DownloadChunks : AddResponse(chunk)
    \/ ClearWritten

SpecDownload == InitDownload /\ [][NextDownload]_vars

\* one zone-parameter stream after another
NextStream ==
    \/ DownloadZoneParameters
    \/ Next_Record
    \/ CloseStream
    \/ \E chunk \in StreamChunks : AddResponse(chunk)
    \/ ClearWritten

SpecStream == InitDownload /\ [][NextStream]_vars

\* what a controller may send in a zone-parameter stream that goes wrong:
\* END_OF_RECORD, ER_NO_ZONE and ER_HANDS_OFF, each followed by ETX,
\* ER_NO_ZONE as the single byte, ER_SERIAL_NUM as a frame with its
\* checksum, a zone-parameter frame, one with a wrong checksum, and a frame
\* that is no zone-parameter frame
RecordChunks ==
    { << PCMI_END_OF_RECORD, ETX >>, << PCMI_ER_NO_ZONE >>,
      << PCMI_ER_NO_ZONE, ETX >>, << PCMI_ER_HANDS_OFF, ETX >>,
      Framed(PCMI_ER_SERIAL_NUM, <<>>, <<>>),
      ZoneFrame(1), BadChecksum(ZoneFrame(1)), VersionFrame }

\* zone-parameter streams, every frame they may meet
NextRecords ==
    \/ DownloadZoneParameters
    \/ Next_Record
    \/ CloseStream
    \/ \E chunk \in RecordChunks : AddResponse(chunk)
    \/ ClearWritten

SpecRecords == InitDownload /\ [][NextRecords]_vars

\* what a controller may send in a zone-parameter stream of swap and
\* non-swap frames: END_OF_RECORD followed by ETX, a ZP_STRING_1 frame, and
\* ZP_STRING_2 frames with record formats 1 and 3
NonSwapChunks ==
    { << PCMI_END_OF_RECORD, ETX >>, ZoneFrame(1),
      NonSwapZoneFrame(1, 1), NonSwapZoneFrame(2, 3) }

\* zone-parameter streams of swap and non-swap frames
NextNonSwap ==
    \/ DownloadZoneParameters
    \/ Next_Record
    \/ CloseStream
    \/ \E chunk \in NonSwapChunks : AddResponse(chunk)
    \/ ClearWritten

SpecNonSwap == InitDownload /\ [][NextNonSwap]_vars

\* what a controller may send after a request for device data: END_OF_RECORD
\* and ER_NO_ZONE, each followed by ETX, and the break acknowledgment
DeviceChunks ==
    { << PCMI_END_OF_RECORD, ETX >>, << PCMI_ER_NO_ZONE, ETX >>,
      << PCMI_BR_ACK >> }

\* a connected client whose caller downloads device data and disconnects
NextDevice ==
    \/ \E kind \in DeviceKinds, zone_number \in DeviceZones :
          DownloadDevice(kind, zone_number)
    \/ NextDeviceRecord
    \/ CloseStream
    \/ Disconnect
    \/ \E chunk \in DeviceChunks : AddResponse(chunk)
    \/ Close
    \/ ClearWritten

SpecDevice == InitDownload /\ [][NextDevice]_vars

\* what a controller may send to a client that asks for history and alarms:
\* the two acknowledgments, END_OF_RECORD followed by ETX, and the version
\* frame, which holds no history and no alarm record
WireChunks ==
    { << PCMI_SN_ACK >>, << PCMI_BR_ACK >>, << PCMI_END_OF_RECORD, ETX >>,
      VersionFrame }

\* a connected client whose caller downloads history and alarms, disconnects
\* and connects again
NextWire ==
    \/ \E zone_number \in HistoryZones, group \in HistoryGroups :
          DownloadHistory(zone_number, group)
    \/ \E zone_number \in HistoryZones : DownloadAlarms(zone_number)
    \/ NextHistoryRecord
    \/ CloseStream
    \/ Disconnect
    \/ Connect(Serial1)
    \/ \E chunk \in WireChunks : AddResponse(chunk)
    \/ ClearWritten

SpecWire == InitDownload /\ [][NextWire]_vars

\* what a controller may send to a client whose transport may be closed under
\* it: END_OF_RECORD followed by ETX, and a zone-parameter frame
FaultChunks == { << PCMI_END_OF_RECORD, ETX >>, ZoneFrame(1) }

\* a connected client whose caller downloads, disconnects and leaves the
\* context manager while the owner of the transport may close it
NextFault ==
    \/ DownloadZoneParameters
    \/ Next_Record
    \/ CloseStream
    \/ DownloadVersion
    \/ Disconnect
    \/ AExit
    \/ \E chunk \in FaultChunks : AddResponse(chunk)
    \/ Close
    \/ ClearWritten

SpecFault == InitDownload /\ [][NextFault]_vars

\* ---------------------------------------------------------------------
\* Properties
\* ---------------------------------------------------------------------
\* C1: connect(serial) on a DISCONNECTED client whose first response byte is
\* SN_ACK returns with state CONNECTED and serial_number equal to the
\* argument, having written exactly one frame, which begins STX, 0x85, '0',
\* '8' and the 8 digits of the serial number.
C1_ConnectSuccess ==
    (result.op = "connect" /\ result.first = PCMI_SN_ACK /\ attempt = 0) =>
        /\ result.kind = "ok"
        /\ state = "CONNECTED"
        /\ serial_number = connect_serial
        /\ Len(result.written) = 1
        /\ SubSeq(result.written[1], 1, 12)
             = << STX, PCMI_SERIAL_NUMBER, 48, 56 >> \o connect_serial

C1_Witness ==
    /\ result.op = "connect" /\ result.first = PCMI_SN_ACK /\ attempt = 0
    /\ state = "CONNECTED"
    /\ serial_number = Serial2
    /\ result.written = << ConnectFrame(Serial2) >>

\* C2 (as claimed): for every byte of the error set, when it is the first byte
\* received after the connect frame, connect fails with a controller error
\* carrying that code and the client ends DISCONNECTED.
C2_ErrorCodeFailsConnect ==
    (result.op = "connect" /\ pc = "idle" /\ result.first \in ERROR_CODES) =>
        /\ result.kind = "ControllerError"
        /\ result.code = result.first
        /\ state = "DISCONNECTED"

\* C3: if every read during connect times out, connect writes exactly
\* max_retries + 1 connect frames, fails with a timeout error and leaves the
\* client DISCONNECTED; no connect call writes more than max_retries + 1
\* frames.
C3_RetriesExhausted ==
    /\ (result.op = "connect" /\ result.kind = "TimeoutError") =>
          /\ Len(result.written) = max_retries + 1
          /\ \A i \in 1..Len(result.written) :
                result.written[i] = ConnectFrame(connect_serial)
          /\ state = "DISCONNECTED"
    /\ (result.op = "connect" /\ result.kind # "ConnectionError") =>
          Len(result.written) <= max_retries + 1
    /\ pc = "connect_sleep" => Len(written_data) <= max_retries

C3_Witness ==
    /\ result.op = "connect" /\ result.kind = "TimeoutError"
    /\ max_retries = MaxRetriesBound
    /\ Len(result.written) = MaxRetriesBound + 1
    /\ state = "DISCONNECTED"

\* C4: connect() called in any state other than DISCONNECTED is rejected with
\* a connection error, writes nothing to the transport, and leaves state and
\* serial_number unchanged.
C4_ConnectRejected ==
    [][ \A serial \in SerialArgs :
          (state # "DISCONNECTED" /\ Connect(serial)) =>
              /\ result'.kind = "ConnectionError"
              /\ UNCHANGED << state, serial_number, is_open, responses,
                              read_buffer, written_data >> ]_vars

C4_Witness ==
    /\ result.op = "connect" /\ result.kind = "ConnectionError"
    /\ state = "CONNECTING"
    /\ written_data # <<>>

\* C5: disconnect() called while the state is DISCONNECTED is a no-op: it
\* writes nothing to the transport, reads nothing, and leaves the state
\* DISCONNECTED.
C5_DisconnectNoop ==
    [][ (state = "DISCONNECTED" /\ Disconnect) =>
            UNCHANGED << state, serial_number, is_open, responses, read_buffer,
                         written_data >> ]_vars

C5_Witness ==
    /\ result.op = "disconnect" /\ result.kind = "ok"
    /\ state = "DISCONNECTED"
    /\ is_open
    /\ result.written = <<>>
    /\ responses # <<>>

\* C6: disconnect() called in any state other than DISCONNECTED always ends
\* with state DISCONNECTED and serial_number cleared, whether the BR_ACK
\* arrives, the acknowledgment read times out, or the BREAK write fails.
C6_DisconnectAlwaysDisconnects ==
    result.op = "disconnect" =>
        /\ state = "DISCONNECTED"
        /\ serial_number = NoSerial

C6_Witness ==
    /\ result.op = "disconnect" /\ result.kind = "TransportError"
    /\ state = "DISCONNECTED"
    /\ serial_number = NoSerial

\* C7 (as claimed): disconnect() tolerates any failure of the acknowledgment
\* read: once the BREAK frame is written it completes without raising,
\* whether the read times out or the response is not a well-formed BR_ACK.
C7_DisconnectToleratesAckFailure ==
    (result.op = "disconnect" /\ result.written # <<>>) => result.kind = "ok"

\* C8: whenever a download that entered DOWNLOADING ends (END_OF_RECORD,
\* ER_NO_ZONE, a controller error code, a frame-parse failure, a record-parse
\* failure, a read timeout, or the stream being closed) the state afterwards
\* is CONNECTED; the client is DOWNLOADING only while a stream is suspended
\* at a yield.
C8_DownloadRestoresConnected ==
    /\ (result.op = "next" /\ result.kind # "record") => state = "CONNECTED"
    /\ (result.op = "download_version" /\ result.kind # "ConnectionError") =>
          state = "CONNECTED"
    /\ result.op = "aclose" => state = "CONNECTED"
    /\ state = "DOWNLOADING" => gen.status = "suspended"

C8_Witness ==
    /\ result.op = "next" /\ result.kind = "ParseError"
    /\ observed # <<>>
    /\ gen.status = "finished"
    /\ state = "CONNECTED"

\* the zone a zone-parameter frame of the controller is for
ZoneOf(chunk) == IF chunk = ZoneFrame(1) THEN 1 ELSE 2

IsEndOfRecord(chunk) ==
    chunk \in { << PCMI_END_OF_RECORD >>, << PCMI_END_OF_RECORD, ETX >> }

\* C9 (as claimed): when the controller delivers N valid zone-parameter frames
\* followed by END_OF_RECORD, the caller observes exactly N records, in the
\* order the controller delivered them, and the stream then ends without
\* error.
C9_RecordsInOrderThenEnd ==
    ( /\ result.op = "next" /\ gen.status = "finished"
      /\ delivered # <<>>
      /\ IsEndOfRecord(delivered[Len(delivered)])
      /\ \A i \in 1..(Len(delivered) - 1) :
            delivered[i] \in { ZoneFrame(1), ZoneFrame(2) } ) =>
        /\ result.kind = "end"
        /\ Len(observed) = Len(delivered) - 1
        /\ \A i \in 1..Len(observed) :
              observed[i].zone_number = ZoneOf(delivered[i])

\* C10 (as claimed): when the controller ends a stream with END_OF_RECORD in
\* acknowledgment shape (the single byte 0x9B, no checksum, no ETX), the
\* download loop recognises it and the stream ends cleanly, without a timeout
\* or protocol error.
C10_AckShapedEndRecognised ==
    ( /\ result.op = "next" /\ gen.status = "finished"
      /\ delivered # <<>>
      /\ delivered[Len(delivered)] = << PCMI_END_OF_RECORD >> ) =>
        result.kind = "end"

\* ---------------------------------------------------------------------
\* The transport calls of a stream
\* ---------------------------------------------------------------------
RequestFrame == _build_simple_frame(PCMI_SEND_ZONE_PARM)

OkSendNextFrame == _build_simple_frame(PCMI_OK_SEND_NEXT)

\* the latest client call was a step of the stream that reached the transport,
\* so trace holds the stream's calls from its first step on
StreamStepped == result.op = "next" /\ result.kind # "ConnectionError"

\* what a parsed frame is to _download_records, from the result and the
\* command byte the frame reader gave: "end" for END_OF_RECORD, "no_zone" for
\* ER_NO_ZONE, "error" for another error code, "unparsed" for a frame that
\* does not parse, and "data" otherwise
FrameKind(result_name, command_byte) ==
    IF result_name # "none" THEN "unparsed"
    ELSE IF command_byte = PCMI_END_OF_RECORD THEN "end"
    ELSE IF command_byte = PCMI_ER_NO_ZONE THEN "no_zone"
    ELSE IF command_byte \in ERROR_CODES THEN "error"
    ELSE "data"

\* what an entry of the trace is to the stream: the kind of the frame for a
\* parse, "raised" for a call on the transport that raised, "read" for a read
\* that returned, "request" and "ack" for the two frames written, "write" for
\* any other write
EventKind(e) ==
    IF e.op = "parse" THEN FrameKind(e.exc, e.data[1])
    ELSE IF e.exc # "none" THEN "raised"
    ELSE IF e.op = "read" THEN "read"
    ELSE IF e.data = RequestFrame THEN "request"
    ELSE IF e.data = OkSendNextFrame THEN "ack"
    ELSE "write"

EventKinds(tr) == [ i \in 1..Len(tr) |-> EventKind(tr[i]) ]

Count(kinds, kind) == Cardinality({ i \in 1..Len(kinds) : kinds[i] = kind })

\* the order of the calls of a stream, given their kinds
WritesInterleaveReads(tr, kinds, ended) ==
    /\ tr # <<>>
    /\ tr[1].op = "write" /\ tr[1].data = RequestFrame
    /\ \A i \in 2..Len(tr) :
          /\ tr[i].op = "write" =>
                tr[i].data = OkSendNextFrame /\ kinds[i - 1] = "data"
          /\ tr[i].op = "read" => tr[i - 1].op = "write"
          /\ tr[i].op = "parse" => kinds[i - 1] = "read"
    /\ \A i \in 1..(Len(tr) - 1) :
          /\ kinds[i] \in { "request", "ack", "read", "data" }
          /\ kinds[i] = "data" => tr[i + 1].op = "write"
    /\ ended =>
          /\ kinds[Len(tr)] \in { "end", "no_zone" }
          /\ Count(kinds, "ack") = Count(kinds, "data")

\* C11: after a step of a multi-record download that reached the transport,
\* the request frame is the first call on the transport and the only write
\* before the first read; every later write is OK_SEND_NEXT and directly
\* follows the parse of a data frame; a data frame that is followed by
\* anything is followed by one OK_SEND_NEXT and then the next read; and a
\* frame that is END_OF_RECORD, ER_NO_ZONE or another error code, or that
\* does not parse, and a call that raised, is the last entry of the stream's
\* trace. A stream that ended cleanly wrote one OK_SEND_NEXT for each data
\* frame it read.
C11_WritesInterleaveReads ==
    StreamStepped =>
        WritesInterleaveReads(trace, EventKinds(trace), result.kind = "end")

\* a two-record download iterated to its END_OF_RECORD: request, frame,
\* OK_SEND_NEXT, frame, OK_SEND_NEXT, END_OF_RECORD
C11_Witness ==
    /\ StreamStepped /\ result.kind = "end"
    /\ Len(observed) = 2
    /\ EventKinds(trace) = << "request", "read", "data", "ack", "read", "data",
                              "ack", "read", "end" >>

\* the record download_zone_parameters makes of the frame a read returned
RecordOfRead(e) == parse_zone_parameters(parse(e.data).payload_hex)

\* the caller holds the record of the stream's latest read: the parse of that
\* frame is the last entry of the trace, and every data frame read before it
\* has its OK_SEND_NEXT while the one held has none
HoldsLatestRecord(tr, kinds, records) ==
    /\ Len(tr) >= 3 /\ records # <<>>
    /\ kinds[Len(tr)] = "data"
    /\ RecordOfRead(tr[Len(tr) - 1]) = records[Len(records)]
    /\ Count(kinds, "ack") = Count(kinds, "data") - 1

\* C12: backpressure. While the stream is suspended at the yield of record k
\* the client has written nothing since it read the frame of record k, and
\* OK_SEND_NEXT was written for the frames before it only; a call reaches the
\* transport in that situation only when the caller asks the stream for its
\* next record, and the first such call is the write of OK_SEND_NEXT.
C12_Backpressure ==
    /\ [](gen.status = "suspended" =>
            HoldsLatestRecord(trace, EventKinds(trace), observed))
    /\ [][ (gen.status = "suspended" /\ trace' # trace) =>
              /\ result'.op = "next"
              /\ Len(trace') > Len(trace)
              /\ trace'[Len(trace) + 1].op = "write"
              /\ trace'[Len(trace) + 1].data = OkSendNextFrame ]_vars

\* the caller holds the second record while the controller's next frame is
\* already waiting in the transport
C12_Witness ==
    /\ gen.status = "suspended" /\ state = "DOWNLOADING"
    /\ Len(observed) = 2
    /\ responses # <<>>
    /\ written_data = <<>>
    /\ EventKinds(trace) = << "request", "read", "data", "ack", "read", "data" >>

\* the command of a frame the controller sent in a stream that goes wrong
CommandOfChunk(chunk) == chunk[1]

\* C13 (as claimed): inside a multi-record download a frame whose command is
\* ER_NO_ZONE ends the stream cleanly, with no error, and a frame whose
\* command is any other error code ends it with a ControllerError that
\* carries that code.
C13_ErrorFrameEndsStream ==
    ( /\ StreamStepped /\ gen.status = "finished"
      /\ delivered # <<>>
      /\ CommandOfChunk(delivered[Len(delivered)]) \in ERROR_CODES ) =>
        IF CommandOfChunk(delivered[Len(delivered)]) = PCMI_ER_NO_ZONE
        THEN result.kind = "end"
        ELSE /\ result.kind = "ControllerError"
             /\ result.code = CommandOfChunk(delivered[Len(delivered)])

\* the frame reader found a checksum that does not match the frame's contents
ChecksumMismatch(e) == e.op = "parse" /\ e.exc = "INVALID_CHECKSUM"

\* how many times the stream wrote OK_SEND_NEXT
OkSendNextWrites(tr) ==
    Cardinality({ i \in 1..Len(tr) :
                    tr[i].op = "write" /\ tr[i].data = OkSendNextFrame })

WriteFailed ==
    /\ result.kind = "TransportError"
    /\ trace # <<>>
    /\ trace[Len(trace)].op = "write"
    /\ trace[Len(trace)].exc = "TransportError"

\* C15 (as claimed): when a transport write fails during a client operation
\* (the connect frame, the BREAK frame, a download request, or an
\* OK_SEND_NEXT during a download) the operation aborts and the client state
\* becomes DISCONNECTED.
C15_WriteFailureDisconnects ==
    WriteFailed => state = "DISCONNECTED"

\* C16 (as claimed): a connect() that is cancelled at a suspension point
\* leaves the client DISCONNECTED, never CONNECTING.
C16_CancelledConnectDisconnects ==
    (result.op = "connect" /\ result.kind = "CancelledError") =>
        state = "DISCONNECTED"

\* C17 (as claimed): a download that is cancelled while DOWNLOADING returns
\* the client to CONNECTED when the transport is still usable, and otherwise
\* leaves it DISCONNECTED with the transport closed.
C17_CancelledDownloadRecovers ==
    [][ (state = "DOWNLOADING" /\ CloseStream) =>
            IF is_open THEN state' = "CONNECTED"
            ELSE state' = "DISCONNECTED" /\ ~is_open' ]_vars

\* C18: a download that starts running while the state is not CONNECTED
\* (download_version called, or a zone-parameter stream asked for its first
\* record) raises ConnectionError, writes nothing, and leaves the state, the
\* serial number, the transport and the records of a stream already under way
\* unchanged; a download_version called while a stream is suspended leaves
\* that stream as it is.
C18_DownloadNeedsConnected ==
    [][ (state # "CONNECTED"
           /\ (DownloadVersion \/ (gen.status = "created" /\ Next_Record))) =>
            /\ result'.kind = "ConnectionError"
            /\ UNCHANGED << state, serial_number, is_open, responses, read_buffer,
                            written_data, trace, observed, delivered, version >>
            /\ gen.status = "suspended" => UNCHANGED gen ]_vars

\* download_version is refused while the caller holds a record of a stream
C18_Witness ==
    /\ result.op = "download_version" /\ result.kind = "ConnectionError"
    /\ state = "DOWNLOADING"
    /\ gen.status = "suspended"
    /\ observed # <<>>

\* C19: in every reachable state, a client that is DISCONNECTED or CONNECTING
\* has no serial number: serial_number is set only when the state is
\* CONNECTED, DOWNLOADING or DISCONNECTING.
C19_SerialOnlyWhenConnected ==
    state \in { "DISCONNECTED", "CONNECTING" } => serial_number = NoSerial

\* a client that sent BREAK and got BR_ACK is DISCONNECTED without a serial
C19_Witness ==
    /\ result.op = "disconnect" /\ result.first = PCMI_BR_ACK
    /\ result.written # <<>>
    /\ state = "DISCONNECTED"
    /\ serial_number = NoSerial
    /\ connect_serial = Serial1

\* exactly 8 ASCII decimal digits
EightAsciiDigits(value) ==
    Len(value) = 8 /\ \A i \in 1..Len(value) : value[i] \in 48..57

\* the exceptions that are a ValueError: pydantic's ValidationError (kind
\* "ValueError") and UnicodeEncodeError
ValueErrorKinds == { "ValueError", "UnicodeEncodeError" }

AExited == result'.op = "aexit" /\ (result' # result \/ state' # state)

\* C21: when the client's async context manager exits, whatever state the
\* client was in and whether disconnect() returned or raised, the client is
\* not connected and the transport is closed
C21_ExitDisconnectsAndCloses ==
    [][AExited => (state' # "CONNECTED" /\ ~is_open')]_vars

\* the context manager was left with the transport open and disconnect()
\* raised on the response to the BREAK frame
C21_Witness ==
    /\ result.op = "aexit"
    /\ result.kind \notin { "ok", "TransportError" }
    /\ state = "DISCONNECTED"
    /\ ~is_open


\* the hex payload of a 2-byte-RLI frame of the controller: what lies between
\* the command byte with its four length characters and the checksum
NonSwapPayload(chunk) == SubSeq(chunk, 6, Len(chunk) - 3)

\* the frames the stream consumed up to the i-th are all zone-parameter
\* frames, so the i-th record the caller observed was decoded from the i-th
IsRecordOfFrame(i) ==
    /\ i <= Len(delivered)
    /\ \A j \in 1..i :
          delivered[j][1] \in { PCMI_ZP_STRING_1, PCMI_ZP_STRING_2 }

\* C22 (as claimed): a zone-parameter record received in a non-swap response
\* frame (ZP_STRING_2, 0xB8) is decoded with the little-endian strategy,
\* whatever the record-format nibble inside the record is: its setpoint is
\* the little-endian reading of the two setpoint bytes.
C22_NonSwapFrameLittleEndian ==
    \A i \in 1..Len(observed) :
        (IsRecordOfFrame(i) /\ delivered[i][1] = PCMI_ZP_STRING_2) =>
            observed[i].temp_setpoint =
                read_int16(NonSwapPayload(delivered[i]), 12, NON_SWAP_STRATEGY)


\* C23 (as claimed): on a Connected client, download_device_parameters(zone)
\* and download_device_variables(zone) each write one request frame (and
\* then follow the multi-record loop until END_OF_RECORD): once the stream
\* was asked for its first record over an open transport, a request frame
\* carrying the zone has been written.
C23_DeviceDownloadWritesRequest ==
    ( /\ result.op = "next"
      /\ gen.kind \in DeviceKinds
      /\ result.kind \notin { "ConnectionError", "TransportError" } ) =>
        /\ result.written # <<>>
        /\ result.written[1][3] = gen.zone


\* C24 (as claimed): hex cursor bounds: after any sequence of cursor
\* operations (reads, skips, seeks, reset, peeks, slices), successful or
\* failed, 0 <= position <= length holds.
C24_CursorWithinBounds ==
    reader.position >= 0 /\ reader.position <= reader.length

\* C25 (as claimed): hex cursor alignment: after any sequence of public
\* cursor operations, including skip(chars) and seek(position) with
\* arbitrary in-range arguments, position is even: a call with a count,
\* offset or position that is not negative, made on an aligned cursor,
\* leaves the cursor aligned.
C25_CursorAligned ==
    [][(reader.position % 2 = 0 /\ ret'.n >= 0) =>
          reader'.position % 2 = 0]_vars


\* C26 (as claimed): for every byte string d,
\* validate_checksum(append_checksum(d), len(d)) is true, and flipping any
\* single bit in d or in either of the two appended checksum characters makes
\* validate_checksum false.
C26_ChecksumDetectsBitFlips ==
    /\ ret.op = "append" => ret.valid
    /\ ret.op = "flip" => ~ret.valid


\* C27: RLI round trip: for every n in [0, 65535],
\* decode_2byte_rli(encode_2byte_rli(2n)) = 2n, and for every even byte
\* count b in [0, 510], decode_1byte_rli(encode_1byte_rli(b)) = b; the
\* 2-byte form puts the low byte in the first two hex characters
C27_RliRoundTrip ==
    /\ (ret.op = "rli2" /\ 2 * arg[1] <= MAX_2BYTE_RLI_SIZE) =>
          /\ ret.decoded = 2 * arg[1]
          /\ Len(ret.chars) = 4
          /\ SubSeq(ret.chars, 1, 2) = HexUpper(<< arg[1] % 256 >>)
          /\ SubSeq(ret.chars, 3, 4) = HexUpper(<< arg[1] \div 256 >>)
    /\ (ret.op = "rli1" /\ 2 * arg[1] <= MAX_1BYTE_RLI_SIZE) =>
          ret.decoded = 2 * arg[1]

\* 0x1234 words are encoded as "3412" and decoded as 9320 bytes
C27_Witness ==
    /\ ret.op = "rli2"
    /\ arg = << 4660 >>
    /\ ret.chars = << 51, 52, 49, 50 >>
    /\ ret.decoded = 9320


\* the two characters are the hex digits, in either case, of the value
IsHexPairOf(cs, value) ==
    /\ IsHexChar(cs[1]) /\ IsHexChar(cs[2])
    /\ HexVal(cs[1]) * 16 + HexVal(cs[2]) = value

\* the two characters are hex digits of another value
IsHexPairOfAnother(cs, value) ==
    /\ IsHexChar(cs[1]) /\ IsHexChar(cs[2])
    /\ HexVal(cs[1]) * 16 + HexVal(cs[2]) # value

\* C28 (as claimed): FrameReader.parse returns Success for a framed buffer
\* only if its two checksum characters equal the low 8 bits of the byte sum
\* over command, length indicator and payload; on a mismatch it returns
\* InvalidChecksum and never a ParsedFrame, for all four framed shapes.
C28_SuccessOnlyWithChecksum ==
    ret.op = "parse" =>
        /\ ret.frame.result = "SUCCESS" =>
              IsHexPairOf(arg.cs, calculate_checksum(arg.body))
        /\ IsHexPairOfAnother(arg.cs, calculate_checksum(arg.body)) =>
              ret.frame.result = "INVALID_CHECKSUM"


\* C29: after any sequence of register, unregister and clear operations,
\* has(t) is true exactly when get(t) returns a strategy; unregister(t)
\* returns true exactly when t was registered immediately before and leaves
\* has(t) false; clear leaves both the parameter and the variable map empty.
C29_RegistryConsistent ==
    /\ \A map \in RegistryMaps, t \in DeviceTypes :
           has_strategy(registry[map], t)
               <=> get_strategy(registry[map], t) \in Strategies
    /\ ret.op = "unregister" =>
           /\ ret.value = (ret.device_type \in DOMAIN ret.before[ret.map])
           /\ ~has_strategy(registry[ret.map], ret.device_type)
    /\ ret.op = "clear" =>
           \A map \in RegistryMaps : DOMAIN registry[map] = {}

\* a registered strategy was unregistered from a registry holding others
C29_Witness ==
    /\ ret.op = "unregister"
    /\ ret.value
    /\ DOMAIN registry.parameter_strategies # {}
    /\ DOMAIN registry.variable_strategies # {}


\* C30: if the first k-1 connect attempts time out and SN_ACK is received on
\* attempt k, with k <= max_retries + 1, connect succeeds: the state is
\* CONNECTED, serial_number is set, and exactly k connect frames have been
\* written.
C30_ConnectSucceedsOnRetry ==
    (result.op = "connect" /\ result.first = PCMI_SN_ACK) =>
        /\ attempt + 1 <= max_retries + 1
        /\ result.kind = "ok"
        /\ pc = "idle"
        /\ state = "CONNECTED"
        /\ serial_number = connect_serial
        /\ result.written
             = [ i \in 1..(attempt + 1) |-> ConnectFrame(connect_serial) ]

\* SN_ACK arrived on the last attempt allowed, after every earlier one timed out
C30_Witness ==
    /\ result.op = "connect" /\ result.first = PCMI_SN_ACK
    /\ max_retries = MaxRetriesBound
    /\ attempt = MaxRetriesBound
    /\ state = "CONNECTED"
    /\ Len(result.written) = MaxRetriesBound + 1


\* the events that the step added to the trace
NewEvents == SubSeq(trace', Len(trace) + 1, Len(trace'))

\* C31: within one connect call, after each read timeout that is followed by
\* a retry, the transport buffers are discarded before the next connect frame
\* is written; buffers are never discarded before the first attempt, and
\* bytes left over from a timed-out attempt are never taken as the response
\* to a later attempt.
C31_DiscardBeforeRetry ==
    [][ /\ ConnectRetry =>
             /\ trace[Len(trace)].op = "read"
             /\ trace[Len(trace)].exc = "TimeoutError"
             /\ Len(NewEvents) >= 2
             /\ NewEvents[1].op = "discard"
             /\ NewEvents[2] = Event("write", ConnectFrame(connect_serial),
                                     NewEvents[2].exc)
             /\ \A i \in 3..Len(NewEvents) : NewEvents[i].op = "read"
             /\ result'.first >= 0 =>
                    /\ responses # <<>>
                    /\ Len(responses') < Len(responses)
                    /\ result'.first = Head(responses)[1]
        /\ (pc = "idle" /\ result'.op = "connect" /\ trace' # <<>>) =>
             \A i \in 1..Len(trace') :
                 trace'[i].op = "discard" => \E j \in 1..(i - 1) :
                     trace'[j].op = "read" /\ trace'[j].exc = "TimeoutError"
      ]_vars

\* an attempt timed out with the byte of SN_ACK left in the buffer, the
\* buffer was discarded, and the next attempt read a fresh SN_ACK
C31_Witness ==
    /\ result.op = "connect" /\ result.kind = "ok" /\ attempt = 1
    /\ Len(trace) = 6
    /\ trace[2] = Event("read", << STX >>, "none")
    /\ trace[3] = Event("read", <<>>, "TimeoutError")
    /\ trace[4].op = "discard"
    /\ trace[5].op = "write"
    /\ trace[6] = Event("read", << PCMI_SN_ACK >>, "none")


\* the bytes of the response that the latest attempt read: the byte read
\* first and, for a framed response, the bytes read up to ETX
ResponseRead(tr) ==
    IF Len(tr) >= 3 /\ tr[Len(tr) - 2].op = "write"
         /\ tr[Len(tr) - 1].op = "read" /\ tr[Len(tr)].op = "read"
      THEN tr[Len(tr) - 1].data \o tr[Len(tr)].data
    ELSE IF Len(tr) >= 2 /\ tr[Len(tr) - 1].op = "write" /\ tr[Len(tr)].op = "read"
      THEN tr[Len(tr)].data
    ELSE <<>>

\* C32: if the response to the connect frame is a complete well-formed frame
\* whose first byte is neither SN_ACK nor an error code, connect fails with a
\* protocol error without retrying (exactly one frame written, when the frame
\* answers the first attempt) and the state is DISCONNECTED.
C32_UnexpectedResponseFailsConnect ==
    (/\ result.op = "connect"
     /\ ResponseRead(trace) \in UnexpectedResponses
     /\ result.first = Head(ResponseRead(trace))
     /\ result.first \notin { PCMI_SN_ACK } \cup ERROR_CODES) =>
        /\ result.kind = "ProtocolError"
        /\ pc = "idle"
        /\ state = "DISCONNECTED"
        /\ Len(result.written) = attempt + 1
        /\ attempt = 0 => result.written = << ConnectFrame(connect_serial) >>

\* a client allowed to retry read a complete zone-parameter frame in answer to
\* its first connect frame
C32_Witness ==
    /\ result.op = "connect"
    /\ ResponseRead(trace) = << STX >> \o ZoneFrame(1)
    /\ result.first = STX
    /\ max_retries > 0
    /\ attempt = 0
    /\ result.kind = "ProtocolError"
    /\ Len(result.written) = 1


\* how many of the first i entries of the trace are parses of a data frame
DataFramesUpTo(kinds, i) == Cardinality({ j \in 1..i : kinds[j] = "data" })

\* C33 (as claimed): in every multi-record download, each successfully
\* parsed frame whose command is neither END_OF_RECORD nor an error code
\* produces exactly one record for the caller (or makes the download fail);
\* no received data frame is acknowledged with OK_SEND_NEXT while being
\* silently skipped.
C33_EveryDataFrameYieldsRecord ==
    StreamStepped =>
        \A i \in 1..Len(trace) :
            EventKinds(trace)[i] = "data" =>
                IF i < Len(trace)
                  THEN \* the stream went on: the frame was acknowledged
                       /\ trace[i + 1].op = "write"
                       /\ trace[i + 1].data = OkSendNextFrame
                       /\ DataFramesUpTo(EventKinds(trace), i) <= Len(observed)
                ELSE \* the stream stopped at the frame
                     \/ /\ result.kind = "record"
                        /\ DataFramesUpTo(EventKinds(trace), i) = Len(observed)
                     \/ result.kind \notin { "record", "end" }


C35_ErrorCodesAreAcknowledgments ==
    (ret.op = "code" /\ ret.code \in ERROR_CODES) =>
        /\ ret.frame.result = "SUCCESS"
        /\ ret.frame.command_byte = ret.code
        /\ ret.frame.payload = <<>>
        /\ ret.frame.bytes_consumed = 1


\* the sum of the bytes of s
RECURSIVE ByteSum(_)
ByteSum(s) == IF s = <<>> THEN 0 ELSE s[1] + ByteSum(Tail(s))

\* the wire shape of a frame: STX first, ETX last and nowhere else, before
\* the ETX the upper-case hex of the low 8 bits of the sum of the bytes
\* between STX and the checksum, and hex characters between the command byte
\* and the checksum
WireShape(frame) ==
    /\ Len(frame) >= 5
    /\ frame[1] = STX
    /\ frame[Len(frame)] = ETX
    /\ \A i \in 1..(Len(frame) - 1) : frame[i] # ETX
    /\ SubSeq(frame, Len(frame) - 2, Len(frame) - 1)
         = HexUpper(<< ByteSum(SubSeq(frame, 2, Len(frame) - 3)) % 256 >>)
    /\ \A i \in 3..(Len(frame) - 3) : IsHexChar(frame[i])

\* C36 (as claimed): every frame the client writes, for every operation and
\* every argument value it accepts, has the wire shape: first byte STX, last
\* byte ETX and no other ETX, the two bytes before ETX are the uppercase hex
\* of the low 8 bits of the sum of the bytes between STX and the checksum,
\* and everything between the command byte and the checksum is ASCII hex
\* characters.
C36_WrittenFramesHaveWireShape ==
    \A i \in 1..Len(written_data) : WireShape(written_data[i])


\* C37 (as claimed): whenever the client state is CONNECTED, serial_number
\* is set and names the controller selected by the most recent successful
\* connect; no sequence of connect, disconnect and download operations
\* (including closing a download stream late) reaches CONNECTED with no
\* serial number.
C37_ConnectedHasSerial ==
    state = "CONNECTED" =>
        /\ serial_number # NoSerial
        /\ serial_number = connect_serial

\* C38 (as claimed): once disconnect() has completed, the client state stays
\* DISCONNECTED until connect() is called again; in particular finishing or
\* closing a download stream that was started before the disconnect does not
\* move the state back to CONNECTED.
C38_DisconnectedUntilConnect ==
    [][ (state = "DISCONNECTED" /\ state' # "DISCONNECTED") =>
            result'.op = "connect" ]_vars


\* C39 (as claimed): a hex-cursor read, skip, seek or slice that fails with a
\* parse error leaves position unchanged, both when the failure is a bounds
\* violation and when it is an invalid hex character, so the caller can
\* recover at the position the error reports.
C39_FailedCallKeepsPosition ==
    (ret.op \notin { "none", "new" } /\ ret.n >= 0 /\ ret.exc = "ParseError") =>
        reader.position = ret.before



\* C40: if the consumer stops iterating a download stream after receiving
\* record k and the stream is then closed, no OK_SEND_NEXT is written for
\* record k (the parse of its frame stays the last call on the transport),
\* nothing else is written or read on the transport, and the client state
\* returns to CONNECTED.
C40_ClosedStreamIsSilent ==
    [][ (CloseStream /\ gen.status = "suspended") =>
            /\ state' = "CONNECTED"
            /\ trace' = trace
            /\ EventKinds(trace)[Len(trace)] = "data"
            /\ Count(EventKinds(trace), "ack") =
                   Count(EventKinds(trace), "data") - 1
            /\ written_data' = written_data
            /\ responses' = responses
            /\ read_buffer' = read_buffer
            /\ is_open' = is_open ]_vars

\* a stream is closed after its second record: one acknowledgment was written,
\* for the first record, and the response queued behind is still queued
C40_Witness ==
    /\ result.op = "aclose"
    /\ Len(observed) = 2
    /\ state = "CONNECTED"
    /\ Count(EventKinds(trace), "ack") = 1
    /\ responses # <<>>

====
